---- MODULE Spec2Model ----
(***************************************************************************)
(* A model of the colour library: the conversion functions, the Color     *)
(* value object, the hex and colour-string parsers, and the ColorScale.   *)
(*                                                                         *)
(* Numbers.  A floating point value v is the integer v * One (fixed       *)
(* point).  One is chosen so that a byte step 1/255 (2000 units) and a    *)
(* decimal step 10^-4 (51 units) are both exact.  Products and quotients  *)
(* are rounded toward zero to a whole unit.                               *)
(***************************************************************************)
EXTENDS Integers, Sequences, FiniteSets, TLC

VARIABLES
    rgba,       \* Color._rgba of the colour under test
    altered,    \* Color._altered of the colour under test
    op,         \* the operation that ran last
    arg,        \* its argument: a string (a sequence of characters) or numbers
    status,     \* how it ended: "ok", "AssertionError" or "SyntaxError"
    result,     \* what it returned, for the operations that return a value
    text,       \* the string produced by the last serialize()
    src,        \* the canonical tuple of the colour that was serialized
    scale,      \* the ColorScale under test
    heap,       \* the Color objects the scale's stops refer to
    call        \* the ColorScale.fromArray call that built the scale, and the
                \* number of invert() calls made since

vars == <<rgba, altered, op, arg, status, result, text, src, scale, heap, call>>

---------------------------------------------------------------------------
(* Fixed-point arithmetic *)

One == 2000 * 255
Third == One \div 3
NaN == 0 - 2000000000

Abs(x) == IF x < 0 THEN 0 - x ELSE x
Sgn(x) == IF x < 0 THEN 0 - 1 ELSE 1
Min2(x, y) == IF x <= y THEN x ELSE y
Max2(x, y) == IF x >= y THEN x ELSE y
Min3(x, y, z) == Min2(x, Min2(y, z))
Max3(x, y, z) == Max2(x, Max2(y, z))

\* The value of body(v) with v evaluated once.
Let(v, body(_)) == CHOOSE r \in {body(w) : w \in {v}} : TRUE

\* floor(a * b / c) for 0 <= a <= 10^7, 0 <= b < 10^8, 0 < c <= 10^7, computed
\* digit by digit (base 100) so that no intermediate product leaves 32 bits: a step
\* takes the quotient and the remainder so far and brings down the next digit d of b.
MulDivU(a, b, c) ==
    LET step(qr, d) == <<qr[1] * 100 + (qr[2] * 100 + a * d) \div c, (qr[2] * 100 + a * d) % c>>
        s3 == step(<<0, 0>>, b \div 1000000)
    IN  step(step(step(s3, (b \div 10000) % 100), (b \div 100) % 100), b % 100)[1]

\* a * b / c rounded toward zero, for c > 0.
MulDiv(a, b, c) == Sgn(a) * Sgn(b) * MulDivU(Abs(a), Abs(b), c)

\* The product and the quotient of two fixed-point numbers.
MulOne(a, b) == MulDiv(a, b, One)
DivOne(a, b) == Sgn(b) * MulDiv(a, One, Abs(b))

\* x times the decimal constant c / 10^5, and x divided by it.
MulDec(x, c) == MulDiv(x, Abs(c), 100000) * Sgn(c)
DivDec(x, c) == MulDiv(x, 100000, c)

---------------------------------------------------------------------------
(* @haeley/math tuple helpers *)

\* clampf without its bounds.
clampfUnbounded(v) == v
clampf(v) == IF v = NaN THEN NaN ELSE IF v < 0 THEN 0 ELSE IF v > One THEN One ELSE v
clampf3(t) == <<clampf(t[1]), clampf(t[2]), clampf(t[3])>>
clampf4(t) == <<clampf(t[1]), clampf(t[2]), clampf(t[3]), clampf(t[4])>>
duplicate4(t) == <<t[1], t[2], t[3], t[4]>>
equals4(s, t) == s[1] = t[1] /\ s[2] = t[2] /\ s[3] = t[3] /\ s[4] = t[4]
mix(x, y, a) == x + MulOne(a, y - x)

DEFAULT_ALPHA == One
DEFAULT_GAMMA == (22 * One) \div 10

---------------------------------------------------------------------------
(* conversion.ts: HSL *)

hue2rgb(p, q, t0) ==
    LET t == IF t0 < 0 THEN t0 + One ELSE IF t0 > One THEN t0 - One ELSE t0
    IN  IF 6 * t < One THEN p + MulOne((q - p) * 6, t)
        ELSE IF 2 * t < One THEN q
        ELSE IF 3 * t < 2 * One THEN p + MulOne((q - p) * 6, 2 * Third - t)
        ELSE p

hsl2rgb(hsl) ==
    LET hslF == clampf3(hsl)
        h == hslF[1]
        s == hslF[2]
        l == hslF[3]
        q == IF 2 * l < One THEN MulOne(l, One + s) ELSE (l + s) - MulOne(s, l)
        p == 2 * l - q
    IN  IF s = 0 THEN <<l, l, l>>
        ELSE <<hue2rgb(p, q, h + Third), hue2rgb(p, q, h), hue2rgb(p, q, h - Third)>>

rgb2hsl(rgb) ==
    LET rgbF == clampf3(rgb)
        min == Min3(rgbF[1], rgbF[2], rgbF[3])
        max == Max3(rgbF[1], rgbF[2], rgbF[3])
        delta == max - min
        l == (max + min) \div 2
        s == IF 2 * l < One THEN DivOne(delta, max + min)
             ELSE DivOne(delta, 2 * One - max - min)
        deltaR == DivOne((max - rgbF[1]) \div 6 + delta \div 2, delta)
        deltaG == DivOne((max - rgbF[2]) \div 6 + delta \div 2, delta)
        deltaB == DivOne((max - rgbF[3]) \div 6 + delta \div 2, delta)
        h == IF rgbF[1] = max THEN deltaB - deltaG
             ELSE IF rgbF[2] = max THEN deltaR - deltaB + Third
             ELSE deltaG - deltaR + 2 * Third
    IN  IF delta = 0 THEN <<0, 0, l>> ELSE <<h, s, l>>

---------------------------------------------------------------------------
(* conversion.ts: CMYK *)

\* A cmyk2rgb that leaves the key out.
cmyk2rgbNoKey(cmyk) ==
    LET cmykF == clampf4(cmyk)
    IN  <<One - cmykF[1], One - cmykF[2], One - cmykF[3]>>

cmyk2rgb(cmyk) ==
    LET cmykF == clampf4(cmyk)
        k == One - cmykF[4]
    IN  <<MulOne(One - cmykF[1], k), MulOne(One - cmykF[2], k), MulOne(One - cmykF[3], k)>>

\* An rgb2cmyk that answers zero inks whenever the key is zero.
rgb2cmykGuarded(rgb) ==
    LET rgbF == clampf3(rgb)
        k1 == One - Max3(rgbF[1], rgbF[2], rgbF[3])
        k2 == One - k1
        part(c) == IF k2 = 0 \/ k1 = 0 THEN 0 ELSE DivOne(k2 - c, k2)
    IN  <<part(rgbF[1]), part(rgbF[2]), part(rgbF[3]), k1>>

\* (k2 - c) * k3 with k3 = 1 / k2 is computed as the one quotient (k2 - c) / k2:
\* the reciprocal of a small k2 does not fit the fixed-point range.
rgb2cmyk(rgb) ==
    LET rgbF == clampf3(rgb)
        k1 == One - Max3(rgbF[1], rgbF[2], rgbF[3])
        k2 == One - k1
        part(c) == IF k2 = 0 THEN 0 ELSE DivOne(k2 - c, k2)
    IN  <<part(rgbF[1]), part(rgbF[2]), part(rgbF[3]), k1>>

---------------------------------------------------------------------------
(* conversion.ts: CIE-Lab and XYZ *)

SDiv(x, n) == Sgn(x) * (Abs(x) \div n)
Cube(x) == MulOne(MulOne(x, x), x)

\* Math.pow(i / 60, 2.19921875) for i = 0 .. 60, in units.
GammaNodes ==
    <<0, 63, 288, 702, 1322, 2159, 3224, 4525, 6069, 7863, 9914, 12226, 14804, 17654, 20778,
      24183, 27871, 31846, 36111, 40671, 45528, 50685, 56145, 61910, 67985, 74371, 81070, 88086,
      95421, 103077, 111055, 119360, 127991, 136953, 146246, 155873, 165835, 176135, 186774,
      197754, 209077, 220745, 232759, 245121, 257833, 270896, 284312, 298082, 312208, 326691,
      341533, 356736, 372300, 388228, 404519, 421177, 438202, 455596, 473359, 491493, 510000>>

GammaStep == One \div (Len(GammaNodes) - 1)
TableStep == One \div 510

\* Math.pow(x, 2.19921875) for x in [0, 1]: linear between the nodes.
Gamma(x) ==
    LET i == x \div GammaStep
    IN  IF i >= Len(GammaNodes) - 1 THEN GammaNodes[Len(GammaNodes)]
        ELSE GammaNodes[i + 1]
             + ((GammaNodes[i + 2] - GammaNodes[i + 1]) * (x - i * GammaStep)) \div GammaStep

\* The greatest x in lo .. hi with Gamma(x) <= y, and with Cube(x) <= y.
RECURSIVE GammaSearch(_, _, _)
GammaSearch(y, lo, hi) ==
    IF lo >= hi THEN lo
    ELSE LET mid == (lo + hi + 1) \div 2
         IN  IF Gamma(mid) <= y THEN GammaSearch(y, mid, hi) ELSE GammaSearch(y, lo, mid - 1)

RECURSIVE CubeSearch(_, _, _)
CubeSearch(y, lo, hi) ==
    IF lo >= hi THEN lo
    ELSE LET mid == (lo + hi + 1) \div 2
         IN  IF Cube(mid) <= y THEN CubeSearch(y, mid, hi) ELSE CubeSearch(y, lo, mid - 1)

RECURSIVE InvGammaBuild(_, _)
InvGammaBuild(lo, hi) ==
    IF lo = hi THEN <<GammaSearch(lo * TableStep, 0, One)>>
    ELSE InvGammaBuild(lo, (lo + hi) \div 2) \o InvGammaBuild((lo + hi) \div 2 + 1, hi)

RECURSIVE CbrtBuild(_, _)
CbrtBuild(lo, hi) ==
    IF lo = hi THEN <<CubeSearch(lo * TableStep, 0, One)>>
    ELSE CbrtBuild(lo, (lo + hi) \div 2) \o CbrtBuild((lo + hi) \div 2 + 1, hi)

InvGammaNodes == InvGammaBuild(0, One \div TableStep)
CbrtNodes == CbrtBuild(0, One \div TableStep)

Interpolate(nodes, x) ==
    LET i == x \div TableStep
    IN  IF i >= Len(nodes) - 1 THEN nodes[Len(nodes)] + (x - One) \div 3
        ELSE nodes[i + 1] + ((nodes[i + 2] - nodes[i + 1]) * (x - i * TableStep)) \div TableStep

\* Math.pow(x, 1 / 2.19921875) and Math.cbrt(x) for x >= 0; above 1 the value
\* continues with slope 1/3 (a result above 1 is only ever clamped).
InvGamma(x) == Interpolate(InvGammaNodes, x)
Cbrt(x) == Interpolate(CbrtNodes, x)

Threshold == ((One \div 1000) * 8856) \div 1000
SixteenOver116 == (16 * One) \div 116

lab2xyz(lab) ==
    LET labF == clampf3(lab)
        yr == (100 * labF[1] + 16 * One) \div 116
        xr == SDiv(256 * labF[2] - 128 * One, 500) + yr
        zr == yr - SDiv(256 * labF[3] - 128 * One, 200)
        f(v) == IF Cube(v) > Threshold THEN Cube(v) ELSE DivDec(v - SixteenOver116, 778700)
    IN  <<MulDec(f(xr), 95047), f(yr), MulDec(f(zr), 108883)>>

xyz2lab(xyz) ==
    LET xyzF == <<DivDec(xyz[1], 95047), xyz[2], DivDec(xyz[3], 108883)>>
        f(v) == IF v > Threshold THEN Cbrt(v) ELSE MulDec(v, 778700) + SixteenOver116
        x == f(xyzF[1])
        y == f(xyzF[2])
        z == f(xyzF[3])
    IN  clampf3(<<(116 * y - 16 * One) \div 100,
                  SDiv(500 * (x - y) + 128 * One, 256),
                  SDiv(200 * (y - z) + 128 * One, 256)>>)

xyz2rgb(xyz) ==
    LET r == MulDec(xyz[1], 204137) - MulDec(xyz[2], 56495) - MulDec(xyz[3], 34469)
        g == MulDec(xyz[2], 187601) - MulDec(xyz[1], 96927) + MulDec(xyz[3], 4156)
        b == MulDec(xyz[1], 1345) - MulDec(xyz[2], 11839) + MulDec(xyz[3], 101541)
        pow(v) == IF v > 0 THEN InvGamma(v) ELSE 0
    IN  clampf3(<<pow(r), pow(g), pow(b)>>)

rgb2xyz(rgb) ==
    LET rgbF == clampf3(rgb)
        r == Gamma(rgbF[1])
        g == Gamma(rgbF[2])
        b == Gamma(rgbF[3])
    IN  <<MulDec(r, 57667) + MulDec(g, 18555) + MulDec(b, 18819),
          MulDec(r, 29738) + MulDec(g, 62735) + MulDec(b, 7527),
          MulDec(r, 2703) + MulDec(g, 7069) + MulDec(b, 99110)>>

lab2rgb(lab) == xyz2rgb(lab2xyz(lab))
rgb2lab(rgb) == xyz2lab(rgb2xyz(rgb))

---------------------------------------------------------------------------
(* grayscale.ts *)

GrayscaleAlgorithms ==
    {"average", "linear-luminance", "least-saturated-variant", "minimum-decomposition",
     "maximum-decomposition"}

\* A grayscale that always averages.
grayscaleAverage(t, algorithm) ==
    LET gray == (t[1] + t[2] + t[3]) \div 3
    IN  IF Len(t) = 4 THEN <<gray, gray, gray, t[4]>> ELSE <<gray, gray, gray>>

\* grayscale(rgba, algorithm); an omitted algorithm is "undefined".
grayscale(t, algorithm) ==
    LET chosen == IF algorithm = "undefined" THEN "linear-luminance" ELSE algorithm
        gray == CASE chosen = "average" -> (t[1] + t[2] + t[3]) \div 3
                  [] chosen = "least-saturated-variant" ->
                         (Max3(t[1], t[2], t[3]) - Min3(t[1], t[2], t[3])) \div 2
                  [] chosen = "minimum-decomposition" -> Min3(t[1], t[2], t[3])
                  [] chosen = "maximum-decomposition" -> Max3(t[1], t[2], t[3])
                  [] chosen = "linear-luminance" ->
                         MulDiv(t[1], 2126, 10000) + MulDiv(t[2], 7152, 10000)
                             + MulDiv(t[3], 722, 10000)
                  [] OTHER -> 0
    IN  IF Len(t) = 4 THEN <<gray, gray, gray, t[4]>> ELSE <<gray, gray, gray>>

---------------------------------------------------------------------------
(* Arithmetic that can leave the finite numbers.  A finite value lies within
   -Limit .. Limit; a result beyond that is kept as Infinity of its sign, a
   division by zero yields Infinity or NaN as in JavaScript (zero has no
   sign here), and NaN spreads through every operation and fails every
   comparison. *)

Infinity == 1500000000
Limit == Infinity \div 15

\* floor(a * b / c) for 0 <= a, b, c <= Limit, c > 0 and a quotient within Limit,
\* digit by digit in base 10: qr is the quotient and the remainder so far, k the
\* power of ten of the next digit of b.
RECURSIVE MulDivDigits(_, _, _, _, _)
MulDivDigits(qr, a, b, c, k) ==
    IF k = 0 THEN qr[1]
    ELSE Let(<<qr[1] * 10 + (qr[2] * 10 + a * ((b \div k) % 10)) \div c,
               (qr[2] * 10 + a * ((b \div k) % 10)) % c>>,
             LAMBDA next : MulDivDigits(next, a, b, c, k \div 10))

MulDivWide(a, b, c) == MulDivDigits(<<0, 0>>, a, b, c, Limit)

Saturate(v) == IF v > Limit THEN Infinity ELSE IF v < 0 - Limit THEN 0 - Infinity ELSE v
IsInfinite(v) == v = Infinity \/ v = 0 - Infinity

FAdd(a0, b0) ==
    Let(<<a0, b0>>, LAMBDA v :
        IF v[1] = NaN \/ v[2] = NaN THEN NaN
        ELSE IF IsInfinite(v[1]) THEN (IF v[2] = 0 - v[1] THEN NaN ELSE v[1])
        ELSE IF IsInfinite(v[2]) THEN v[2]
        ELSE Saturate(v[1] + v[2]))

FSub(a, b) == FAdd(a, Let(b, LAMBDA v : IF v = NaN THEN NaN ELSE 0 - v))

\* The product leaves the finite numbers when |a| > Limit / |b|.
FMul(a0, b0) ==
    Let(<<a0, b0>>, LAMBDA v :
        IF v[1] = NaN \/ v[2] = NaN THEN NaN
        ELSE IF IsInfinite(v[1]) \/ IsInfinite(v[2])
             THEN (IF v[1] = 0 \/ v[2] = 0 THEN NaN ELSE Sgn(v[1]) * Sgn(v[2]) * Infinity)
        ELSE IF Abs(v[2]) > One /\ Abs(v[1]) > MulDivWide(Limit, One, Abs(v[2]))
             THEN Sgn(v[1]) * Sgn(v[2]) * Infinity
        ELSE Sgn(v[1]) * Sgn(v[2]) * MulDivWide(Abs(v[1]), Abs(v[2]), One))

\* The quotient leaves the finite numbers when |a| > Limit * |b|.
FDiv(a0, b0) ==
    Let(<<a0, b0>>, LAMBDA v :
        IF v[1] = NaN \/ v[2] = NaN THEN NaN
        ELSE IF IsInfinite(v[1])
             THEN (IF IsInfinite(v[2]) THEN NaN ELSE Sgn(v[1]) * Sgn(v[2]) * Infinity)
        ELSE IF IsInfinite(v[2]) THEN 0
        ELSE IF v[2] = 0 THEN (IF v[1] = 0 THEN NaN ELSE Sgn(v[1]) * Infinity)
        ELSE IF Abs(v[2]) < One /\ Abs(v[1]) > MulDivWide(Limit, Abs(v[2]), One)
             THEN Sgn(v[1]) * Sgn(v[2]) * Infinity
        ELSE Sgn(v[1]) * Sgn(v[2]) * MulDivWide(Abs(v[1]), One, Abs(v[2])))

FLess(a, b) == a # NaN /\ b # NaN /\ a < b

\* The decimal constant n / 10^6.
Dec6(n) == MulDiv(n, One, 1000000)

---------------------------------------------------------------------------
(* conversion.ts: gamma correction and the sRGB matrices *)

\* Math.pow(i / 60, 2.2) for i = 0 .. 60, in units.
Pow22Nodes ==
    <<0, 62, 287, 700, 1319, 2155, 3218, 4517, 6059, 7852, 9900, 12210, 14786, 17632, 20755,
      24157, 27842, 31814, 36078, 40635, 45489, 50643, 56101, 61864, 67936, 74320, 81017, 88031,
      95364, 103018, 110995, 119298, 127929, 136889, 146181, 155807, 165769, 176068, 186707,
      197688, 209011, 220679, 232694, 245058, 257771, 270835, 284253, 298025, 312153, 326640,
      341485, 356691, 372259, 388190, 404486, 421149, 438179, 455577, 473346, 491487, 510000>>

\* Math.pow(i / 510, 1 / 2.2) for i = 0 .. 510, in units.
Root22Nodes ==
    <<0, 29982, 41085, 49400, 56302, 62312, 67696, 72609, 77153, 81396, 85389, 89170, 92767,
      96204, 99500, 102670, 105726, 108680, 111541, 114316, 117013, 119637, 122194, 124688,
      127123, 129504, 131834, 134115, 136350, 138542, 140694, 142807, 144882, 146923, 148930,
      150906, 152850, 154766, 156653, 158514, 160349, 162159, 163945, 165707, 167448, 169167,
      170866, 172544, 174204, 175844, 177466, 179071, 180658, 182229, 183784, 185323, 186848,
      188357, 189852, 191333, 192800, 194254, 195695, 197124, 198540, 199944, 201336, 202717,
      204087, 205446, 206794, 208131, 209459, 210776, 212084, 213382, 214670, 215950, 217220,
      218481, 219734, 220978, 222214, 223442, 224662, 225873, 227077, 228274, 229463, 230644,
      231819, 232986, 234146, 235300, 236446, 237586, 238720, 239847, 240968, 242082, 243191,
      244293, 245390, 246480, 247565, 248645, 249718, 250786, 251849, 252906, 253958, 255005,
      256047, 257083, 258115, 259142, 260164, 261181, 262193, 263201, 264204, 265202, 266196,
      267186, 268171, 269152, 270128, 271101, 272069, 273033, 273993, 274949, 275901, 276849,
      277794, 278734, 279671, 280603, 281533, 282458, 283380, 284298, 285213, 286124, 287032,
      287936, 288837, 289735, 290629, 291520, 292408, 293292, 294173, 295052, 295927, 296799,
      297667, 298533, 299396, 300256, 301113, 301967, 302818, 303666, 304511, 305354, 306194,
      307031, 307865, 308697, 309526, 310352, 311176, 311997, 312815, 313631, 314445, 315255,
      316064, 316870, 317673, 318474, 319273, 320069, 320863, 321654, 322443, 323230, 324015,
      324797, 325577, 326355, 327130, 327904, 328675, 329444, 330211, 330975, 331738, 332498,
      333257, 334013, 334768, 335520, 336270, 337018, 337765, 338509, 339251, 339992, 340730,
      341467, 342201, 342934, 343665, 344394, 345121, 345847, 346570, 347292, 348012, 348730,
      349446, 350161, 350874, 351585, 352294, 353002, 353708, 354412, 355115, 355816, 356515,
      357213, 357909, 358604, 359296, 359988, 360677, 361365, 362052, 362737, 363420, 364102,
      364782, 365461, 366138, 366814, 367488, 368161, 368833, 369502, 370171, 370838, 371503,
      372167, 372830, 373491, 374151, 374810, 375467, 376123, 376777, 377430, 378082, 378732,
      379381, 380028, 380675, 381320, 381963, 382606, 383247, 383887, 384525, 385163, 385799,
      386433, 387067, 387699, 388330, 388960, 389588, 390216, 390842, 391467, 392091, 392713,
      393335, 393955, 394574, 395192, 395808, 396424, 397038, 397652, 398264, 398875, 399485,
      400094, 400701, 401308, 401913, 402518, 403121, 403723, 404324, 404924, 405523, 406121,
      406718, 407314, 407909, 408503, 409095, 409687, 410278, 410867, 411456, 412044, 412630,
      413216, 413800, 414384, 414967, 415548, 416129, 416709, 417288, 417865, 418442, 419018,
      419593, 420167, 420740, 421312, 421883, 422454, 423023, 423591, 424159, 424726, 425291,
      425856, 426420, 426983, 427545, 428106, 428667, 429226, 429785, 430343, 430899, 431455,
      432011, 432565, 433118, 433671, 434223, 434773, 435324, 435873, 436421, 436969, 437516,
      438061, 438607, 439151, 439694, 440237, 440779, 441320, 441860, 442400, 442939, 443477,
      444014, 444550, 445086, 445621, 446155, 446688, 447220, 447752, 448283, 448813, 449343,
      449872, 450400, 450927, 451454, 451979, 452504, 453029, 453552, 454075, 454597, 455119,
      455640, 456160, 456679, 457198, 457715, 458233, 458749, 459265, 459780, 460294, 460808,
      461321, 461834, 462345, 462856, 463367, 463876, 464385, 464893, 465401, 465908, 466414,
      466920, 467425, 467929, 468433, 468936, 469438, 469940, 470441, 470942, 471442, 471941,
      472439, 472937, 473435, 473931, 474427, 474923, 475418, 475912, 476405, 476898, 477391,
      477883, 478374, 478864, 479354, 479843, 480332, 480820, 481308, 481795, 482281, 482767,
      483252, 483737, 484221, 484704, 485187, 485669, 486151, 486632, 487113, 487593, 488072,
      488551, 489030, 489507, 489984, 490461, 490937, 491413, 491888, 492362, 492836, 493309,
      493782, 494254, 494726, 495197, 495668, 496138, 496608, 497077, 497545, 498013, 498480,
      498947, 499414, 499880, 500345, 500810, 501274, 501738, 502201, 502664, 503126, 503588,
      504049, 504510, 504970, 505430, 505889, 506348, 506806, 507264, 507721, 508178, 508634,
      509090, 509545, 510000>>

\* Math.pow(x, gamma) and Math.pow(x, 1 / gamma) for x in [0, 1] or NaN, and for the
\* two gamma values of the model: 1.0 and DEFAULT_GAMMA (linear between the nodes).
PowGamma(x, gamma) ==
    IF x = NaN THEN NaN
    ELSE IF gamma = One \/ x >= One THEN x
    ELSE Pow22Nodes[x \div GammaStep + 1]
         + ((Pow22Nodes[x \div GammaStep + 2] - Pow22Nodes[x \div GammaStep + 1])
               * (x % GammaStep)) \div GammaStep

PowOverGamma(x, gamma) ==
    IF x = NaN THEN NaN
    ELSE IF gamma = One THEN x
    ELSE Interpolate(Root22Nodes, x)

rgb2srgb(rgb, gamma) ==
    <<PowGamma(clampf(rgb[1]), gamma), PowGamma(clampf(rgb[2]), gamma),
      PowGamma(clampf(rgb[3]), gamma)>>

srgb2rgb(srgb, gamma) ==
    <<PowOverGamma(clampf(srgb[1]), gamma), PowOverGamma(clampf(srgb[2]), gamma),
      PowOverGamma(clampf(srgb[3]), gamma)>>

D65 == <<Dec6(312713), Dec6(329016), Dec6(358271)>>

\* clampf3, then the product with sRGB2XYZ.
srgb2xyz(srgb) ==
    LET times(c) ==
            <<MulDec(c[1], 41246) + MulDec(c[2], 35758) + MulDec(c[3], 18044),
              MulDec(c[1], 21267) + MulDec(c[2], 71515) + MulDec(c[3], 7218),
              MulDec(c[1], 1933) + MulDec(c[2], 11919) + MulDec(c[3], 95030)>>
    IN  times(clampf3(srgb))

\* The product of a tuple with XYZ2sRGB.
timesXYZ2sRGB(c) ==
    <<MulDec(c[1], 324045) + MulDec(c[2], -153714) + MulDec(c[3], -49853),
      MulDec(c[1], -96927) + MulDec(c[2], 187601) + MulDec(c[3], 4156),
      MulDec(c[1], 5564) + MulDec(c[2], -20403) + MulDec(c[3], 105723)>>

\* The product with XYZ2sRGB is stored in a copy; the function returns its argument.
xyz2srgb(xyz) == xyz

---------------------------------------------------------------------------
(* daltonize.ts *)

\* new CIEDeficiency(dcp, begin, end): the slope and the intercept of the axis.
CIEDeficiency(dcp, begin, end) ==
    LET axis(clm) == [dcp |-> dcp, clm |-> clm, clyi |-> FSub(begin[2], FMul(clm, begin[1]))]
    IN  axis(FDiv(end[2] - begin[2], end[1] - begin[1]))

Deficiencies == {"None", "Protanope", "Deuteranope", "Tritanope"}

Protanope ==
    CIEDeficiency(<<Dec6(735000), Dec6(265000)>>, <<Dec6(115807), Dec6(73581)>>,
                  <<Dec6(471899), Dec6(527051)>>)
Deuteranope ==
    CIEDeficiency(<<Dec6(1140000), 0 - Dec6(140000)>>, <<Dec6(102776), Dec6(102864)>>,
                  <<Dec6(505845), Dec6(493211)>>)
Tritanope ==
    CIEDeficiency(<<Dec6(171000), 0 - Dec6(3000)>>, <<Dec6(45391), Dec6(294976)>>,
                  <<Dec6(665764), Dec6(334011)>>)

\* The switch of daltonize.
CIED(deficiency) ==
    CASE deficiency = "Protanope" -> Protanope
      [] deficiency = "Deuteranope" -> Deuteranope
      [] deficiency = "Tritanope" -> Tritanope

\* cuvY: cxyz[0] * csum and cxyz[1] * csum with csum = 1 / (X + Y + Z), each computed
\* as one quotient; for X + Y + Z = 0 csum is Infinity and both products are NaN.
Chromaticity(cxyz) ==
    LET over(sum) == IF sum = 0 THEN <<NaN, NaN>>
                     ELSE <<FDiv(cxyz[1], sum), FDiv(cxyz[2], sum)>>
    IN  over(cxyz[1] + cxyz[2] + cxyz[3])

\* clm and clyi: the confusion line through the colour and the confusion point.
ConfusionLine(cuvY, dcp) ==
    LET line(clm) == <<clm, FSub(cuvY[2], FMul(cuvY[1], clm))>>
    IN  line(IF FLess(cuvY[1], dcp[1])
             THEN FDiv(FSub(dcp[2], cuvY[2]), FSub(dcp[1], cuvY[1]))
             ELSE FDiv(FSub(cuvY[2], dcp[2]), FSub(cuvY[1], dcp[1])))

\* sxyz: the simulated colour, where the confusion line meets the axis.
Simulated(line, axis, y) ==
    LET at(du) ==
            LET on(dv) == <<FDiv(FMul(du, y), dv), y,
                            FDiv(FMul(FSub(One, FAdd(du, dv)), y), dv)>>
            IN  on(FAdd(FMul(line[1], du), line[2]))
    IN  at(FDiv(FSub(axis.clyi, line[2]), FSub(line[1], axis.clm)))

\* adjust: argb[0] is assigned three times, last from the blue components; argb[1]
\* and argb[2] keep their zeros.  Math.max of a NaN is NaN.
Adjust(srgb, drgb) ==
    LET pick(argb0) == IF argb0 = NaN THEN NaN
                       ELSE IF argb0 > One \/ argb0 < 0 THEN 0
                       ELSE argb0
    IN  pick(IF drgb[3] # 0 /\ drgb[3] # NaN
             THEN FDiv(FSub(IF FLess(srgb[3], 0) THEN 0 ELSE One, srgb[3]), drgb[3])
             ELSE 0)

\* srgb + drgb * adjust
Shifted(srgb, drgb) ==
    LET by(adjust) == <<FAdd(srgb[1], FMul(drgb[1], adjust)),
                        FAdd(srgb[2], FMul(drgb[2], adjust)),
                        FAdd(srgb[3], FMul(drgb[3], adjust))>>
    IN  by(Adjust(srgb, drgb))

\* daltonize(rgb, deficiency, gamma) of a three-component tuple
daltonize(rgb, deficiency, gamma) ==
    IF deficiency = "None" THEN <<rgb[1], rgb[2], rgb[3]>>
    ELSE LET from(cxyz) ==
                 LET neutral(n) == <<FMul(D65[1], n), 0, FMul(D65[3], n)>>
                     toward(nxyz, sxyz) ==
                         Shifted(xyz2srgb(sxyz),
                                 xyz2srgb(<<FSub(nxyz[1], sxyz[1]), 0, FSub(nxyz[3], sxyz[3])>>))
                 IN  toward(neutral(FDiv(cxyz[2], D65[2])),
                            Simulated(ConfusionLine(Chromaticity(cxyz), CIED(deficiency).dcp),
                                      CIED(deficiency), cxyz[2]))
         IN  srgb2rgb(from(srgb2xyz(rgb2srgb(rgb, gamma))), gamma)

---------------------------------------------------------------------------
(* Strings are sequences of one-character strings. *)

Digits == <<"0", "1", "2", "3", "4", "5", "6", "7", "8", "9">>
LowerHex == <<"0", "1", "2", "3", "4", "5", "6", "7", "8", "9", "a", "b", "c", "d", "e", "f">>
UpperHex == <<"0", "1", "2", "3", "4", "5", "6", "7", "8", "9", "A", "B", "C", "D", "E", "F">>
LowerLetters == <<"a", "b", "c", "g", "h", "k", "l", "m", "r", "s", "x", "y">>
UpperLetters == <<"A", "B", "C", "G", "H", "K", "L", "M", "R", "S", "X", "Y">>

Undefined == NaN - 1

IndexIn(seq, c) == IF \E i \in 1..Len(seq) : seq[i] = c
                   THEN CHOOSE i \in 1..Len(seq) : seq[i] = c
                   ELSE 0
IsDigit(c) == IndexIn(Digits, c) > 0
DigitValue(c) == IndexIn(Digits, c) - 1
IsHexDigit(c) == IndexIn(LowerHex, c) > 0 \/ IndexIn(UpperHex, c) > 0
HexValue(c) == IF IndexIn(LowerHex, c) > 0 THEN IndexIn(LowerHex, c) - 1
               ELSE IndexIn(UpperHex, c) - 1
ToLower(c) == IF IndexIn(UpperLetters, c) > 0 THEN LowerLetters[IndexIn(UpperLetters, c)] ELSE c
LowerCase(s) == [i \in 1..Len(s) |-> ToLower(s[i])]

\* s[i] of JavaScript (0-based): a character, or undefined past the end.
CharAt(s, i) == IF i + 1 \in 1..Len(s) THEN s[i + 1] ELSE "undefined"
StartsWith(s, p) == Len(s) >= Len(p) /\ SubSeq(s, 1, Len(p)) = p

RECURSIVE Join(_, _)
Join(parts, sep) ==
    IF parts = <<>> THEN <<>>
    ELSE IF Len(parts) = 1 THEN parts[1]
    ELSE parts[1] \o sep \o Join(Tail(parts), sep)

\* The decimal digits of n >= 0, and n of its digits.
RECURSIVE IntToChars(_)
IntToChars(n) == IF n < 10 THEN <<Digits[n + 1]>>
                 ELSE IntToChars(n \div 10) \o <<Digits[(n % 10) + 1]>>

RECURSIVE CharsToInt(_)
CharsToInt(s) == IF s = <<>> THEN 0
                 ELSE CharsToInt(SubSeq(s, 1, Len(s) - 1)) * 10 + DigitValue(s[Len(s)])

RECURSIVE Pow10(_)
Pow10(k) == IF k = 0 THEN 1 ELSE 10 * Pow10(k - 1)

---------------------------------------------------------------------------
(* conversion.ts: hexadecimal strings *)

\* HEX_FORMAT_REGEX.test(s): /^(#|0x)?(([0-9a-f]{3}){1,2}|([0-9a-f]{4}){1,2})$/i
HexFormatTest(s) ==
    \E off \in {0, 1, 2} :
        /\ Len(s) - off \in {3, 4, 6, 8}
        /\ off = 1 => s[1] = "#"
        /\ off = 2 => s[1] = "0" /\ ToLower(s[2]) = "x"
        /\ \A i \in (off + 1)..Len(s) : IsHexDigit(s[i])

\* parseInt that stops after the first digit.
parseInt16FirstDigit(c1, c2) == IF IsHexDigit(c1) THEN HexValue(c1) ELSE NaN

\* parseInt(c1 + c2, 16) for two characters: an optional sign or blank, an optional
\* 0x prefix, then the longest run of hexadecimal digits; NaN when there is none.
parseInt16(c1, c2) ==
    IF c1 = "0" /\ c2 \in {"x", "X"} THEN NaN
    ELSE IF IsHexDigit(c1)
         THEN (IF IsHexDigit(c2) THEN 16 * HexValue(c1) + HexValue(c2) ELSE HexValue(c1))
    ELSE IF c1 \in {" ", "+"} /\ IsHexDigit(c2) THEN HexValue(c2)
    ELSE IF c1 = "-" /\ IsHexDigit(c2) THEN 0 - HexValue(c2)
    ELSE NaN

isNaN(v) == v = NaN
ByteToUnit(v) == IF isNaN(v) THEN NaN ELSE v * (One \div 255)

\* hex2rgba: the tuple it computes, and whether its assertion let it return.
hex2rgba(hex) ==
    LET offset == IF StartsWith(hex, <<"0", "x">>) THEN 2
                  ELSE IF StartsWith(hex, <<"#">>) THEN 1 ELSE 0
        length == (Len(hex) - offset) \div 3
        stride == length - 1
        channel(k) == ByteToUnit(parseInt16(CharAt(hex, offset + k * length),
                                            CharAt(hex, offset + k * length + stride)))
        alpha == IF Len(hex) - offset = 4 \/ Len(hex) - offset = 8
                 THEN channel(3) ELSE DEFAULT_ALPHA
        value == <<channel(0), channel(1), channel(2), alpha>>
    IN  IF ~HexFormatTest(hex)
        THEN [value |-> <<0, 0, 0, DEFAULT_ALPHA>>, status |-> "ok"]
        ELSE IF \E i \in 1..4 : isNaN(value[i])
        THEN [value |-> value, status |-> "AssertionError"]
        ELSE [value |-> value, status |-> "ok"]

---------------------------------------------------------------------------
(* conversion.ts: byte and float tuples *)

\* Math.round(v * 255) of a fixed-point v, as a whole number.
RoundByte(v) == (v * 255 + One \div 2) \div One

rgb2RGB(rgb) ==
    LET rgbF == clampf3(rgb)
    IN  <<RoundByte(rgbF[1]), RoundByte(rgbF[2]), RoundByte(rgbF[3])>>

rgba2RGBA(t) ==
    LET rgbaF == clampf4(t)
    IN  <<RoundByte(rgbaF[1]), RoundByte(rgbaF[2]), RoundByte(rgbaF[3]), RoundByte(rgbaF[4])>>

\* The byte tuples hold fixed-point numbers too: byte b is b * One.
RGBA2rgba(t) ==
    <<clampf(SDiv(t[1], 255)), clampf(SDiv(t[2], 255)),
      clampf(SDiv(t[3], 255)), clampf(SDiv(t[4], 255))>>

RGBa2rgba(t) ==
    <<clampf(SDiv(t[1], 255)), clampf(SDiv(t[2], 255)), clampf(SDiv(t[3], 255)), clampf(t[4])>>

---------------------------------------------------------------------------
(* color.ts: colour strings *)

Prefix(name) ==
    CASE name = "rgb" -> <<"r", "g", "b">>
      [] name = "rgba" -> <<"r", "g", "b", "a">>
      [] name = "RGB" -> <<"R", "G", "B">>
      [] name = "RGBA" -> <<"R", "G", "B", "A">>
      [] name = "RGBa" -> <<"R", "G", "B", "a">>
      [] name = "hsl" -> <<"h", "s", "l">>
      [] name = "hsla" -> <<"h", "s", "l", "a">>
      [] name = "lab" -> <<"l", "a", "b">>
      [] name = "laba" -> <<"l", "a", "b", "a">>
      [] name = "cmyk" -> <<"c", "m", "y", "k">>
      [] name = "cmyka" -> <<"c", "m", "y", "k", "a">>
      [] OTHER -> <<>>

\* The case-insensitive alternatives of COLOR_STRING_REGEX, lower-cased.
TestEncodings == {"rgb", "rgba", "hsl", "hsla", "lab", "laba", "cmyk", "cmyka"}
\* The case-sensitive alternatives of the expression fromString matches with.
MatchEncodings == {"rgb", "rgba", "RGB", "RGBA", "", "RGBa", "hsl", "hsla", "lab", "laba",
                   "cmyk", "cmyka"}

LineTerminators == {"\n", "\r"}

\* prefix "(" anything-but-a-line-break ")" and nothing after it.
Parenthesised(s, p) ==
    /\ Len(s) >= Len(p) + 2
    /\ s[Len(p) + 1] = "("
    /\ s[Len(s)] = ")"
    /\ \A i \in (Len(p) + 2)..(Len(s) - 1) : s[i] \notin LineTerminators

\* COLOR_STRING_REGEX.test(s)
ColorStringTest(s) ==
    \E e \in TestEncodings : StartsWith(LowerCase(s), Prefix(e)) /\ Parenthesised(s, Prefix(e))

\* colorstr.match(...) of fromString: the encoding and the text within the parentheses.
ColorStringMatch(s) ==
    IF \E e \in MatchEncodings : StartsWith(s, Prefix(e)) /\ Parenthesised(s, Prefix(e))
    THEN LET e == CHOOSE e \in MatchEncodings :
                      StartsWith(s, Prefix(e)) /\ Parenthesised(s, Prefix(e))
         IN  [matched |-> TRUE, encoding |-> e,
              inner |-> SubSeq(s, Len(Prefix(e)) + 2, Len(s) - 1)]
    ELSE [matched |-> FALSE, encoding |-> "", inner |-> <<>>]

JsonSpace == {" ", "\t", "\n", "\r"}

RECURSIVE TrimLeft(_)
TrimLeft(s) == IF s # <<>> /\ s[1] \in JsonSpace THEN TrimLeft(Tail(s)) ELSE s
RECURSIVE TrimRight(_)
TrimRight(s) == IF s # <<>> /\ s[Len(s)] \in JsonSpace
                THEN TrimRight(SubSeq(s, 1, Len(s) - 1)) ELSE s
Trim(s) == TrimRight(TrimLeft(s))

RECURSIVE Split(_, _)
Split(s, sep) ==
    IF IndexIn(s, sep) = 0 THEN <<s>>
    ELSE <<SubSeq(s, 1, IndexIn(s, sep) - 1)>> \o Split(SubSeq(s, IndexIn(s, sep) + 1, Len(s)), sep)

AllDigits(s) == \A i \in 1..Len(s) : IsDigit(s[i])

\* A JSON number without exponent part: -? (0 | [1-9][0-9]*) (. [0-9]+)?
JsonNumberParts(tok) ==
    LET negative == tok # <<>> /\ tok[1] = "-"
        body == IF negative THEN Tail(tok) ELSE tok
        dot == IndexIn(body, ".")
        int == IF dot = 0 THEN body ELSE SubSeq(body, 1, dot - 1)
        frac == IF dot = 0 THEN <<>> ELSE SubSeq(body, dot + 1, Len(body))
    IN  [negative |-> negative, dot |-> dot, int |-> int, frac |-> frac]

IsJsonNumber(tok) ==
    LET n == JsonNumberParts(tok)
    IN  /\ n.int # <<>>
        /\ AllDigits(n.int)
        /\ Len(n.int) = 1 \/ n.int[1] # "0"
        /\ n.dot # 0 => n.frac # <<>> /\ AllDigits(n.frac)

JsonNumber(tok) ==
    LET n == JsonNumberParts(tok)
        magnitude == CharsToInt(n.int) * One + MulDiv(CharsToInt(n.frac), One, Pow10(Len(n.frac)))
    IN  IF n.negative THEN 0 - magnitude ELSE magnitude

\* JSON.parse(`[${inner}]`) for lists of number literals; anything else in the
\* brackets that is not a number literal is a syntax error in the strings used here.
JsonParseList(inner) ==
    LET tokens == Split(inner, ",")
    IN  IF Trim(inner) = <<>> THEN [status |-> "ok", values |-> <<>>]
        ELSE IF \A i \in 1..Len(tokens) : IsJsonNumber(Trim(tokens[i]))
        THEN [status |-> "ok", values |-> [i \in 1..Len(tokens) |-> JsonNumber(Trim(tokens[i]))]]
        ELSE [status |-> "SyntaxError", values |-> <<>>]

\* The number of values an encoding carries.
EncodingLength(e) ==
    CASE e \in {"rgb", "RGB", "hsl", "lab"} -> 3
      [] e \in {"rgba", "RGBA", "RGBa", "hsla", "laba", "cmyk"} -> 4
      [] e = "cmyka" -> 5
      [] OTHER -> 0

FractionDigits == 4
FixedStep == One \div Pow10(FractionDigits)

\* toFixed with one fraction digit fewer.
toFixedShort(v) ==
    LET n == (v + 5 * FixedStep) \div (10 * FixedStep)
        frac == IntToChars(Pow10(FractionDigits - 1) + (n % Pow10(FractionDigits - 1)))
    IN  IntToChars(n \div Pow10(FractionDigits - 1)) \o <<".">> \o Tail(frac)

\* Number.prototype.toFixed(4) of a value in fixed-point units.
toFixed(v) ==
    LET n == (v + FixedStep \div 2) \div FixedStep
        frac == IntToChars(Pow10(FractionDigits) + (n % Pow10(FractionDigits)))
    IN  IntToChars(n \div Pow10(FractionDigits)) \o <<".">> \o Tail(frac)

\* toString(ColorEncoding.rgba): `rgba(${values.map(toFixed).join(', ')})`
toString(t) ==
    Prefix("rgba") \o <<"(">>
        \o Join(<<toFixed(t[1]), toFixed(t[2]), toFixed(t[3]), toFixed(t[4])>>, <<",", " ">>)
        \o <<")">>

serialize(t) == toString(t)

---------------------------------------------------------------------------
(* The strings and numbers the Color under test is driven with. *)

\* Colour strings of a supported form that carry no alpha value.
AlphaLessStrings ==
    {<<"r", "g", "b", "(", "0", ".", "5", ",", " ", "0", ",", " ", "1", ")">>,
     <<"R", "G", "B", "(", "2", "5", "5", ",", " ", "0", ",", " ", "0", ")">>,
     <<"h", "s", "l", "(", "0", ",", " ", "1", ",", " ", "0", ".", "5", ")">>,
     <<"l", "a", "b", "(", "1", ",", " ", "0", ".", "5", ",", " ", "0", ".", "5", ")">>,
     <<"c", "m", "y", "k", "(", "0", ",", " ", "1", ",", " ", "1", ",", " ", "0", ")">>,
     <<"#", "0", "f", "f">>,
     <<"0", "x", "0", "0", "F", "F", "0", "0">>,
     <<"r", "g", "b", "(", "-", "1", ",", " ", "2", ",", " ", "0", ".", "5", ")">>}

\* Colour strings of a supported form that carry an alpha value.
AlphaStrings ==
    {<<"r", "g", "b", "a", "(", "0", ".", "5", ",", " ", "0", ",", " ", "1", ",", " ", "0", ".", "5", ")">>,
     <<"R", "G", "B", "A", "(", "2", "5", "5", ",", " ", "0", ",", " ", "0", ",", " ", "2", "5", "5", ")">>,
     <<"R", "G", "B", "a", "(", "2", "5", "5", ",", " ", "0", ",", " ", "0", ",", " ", "0", ".", "5", ")">>,
     <<"h", "s", "l", "a", "(", "0", ",", " ", "1", ",", " ", "0", ".", "5", ",", " ", "0", ".", "5", ")">>,
     <<"l", "a", "b", "a", "(", "0", ",", " ", "0", ".", "5", ",", " ", "0", ".", "5", ",", " ", "0", ".", "5", ")">>,
     <<"c", "m", "y", "k", "a", "(", "0", ",", " ", "1", ",", " ", "1", ",", " ", "0", ",", " ", "0", ".", "5", ")">>,
     <<"#", "0", "f", "f", "8">>,
     <<"0", "0", "f", "f", "0", "0", "8", "0">>}

\* A list of the wrong length, and a hexadecimal string with an upper-case prefix.
RefusedStrings ==
    {<<"r", "g", "b", "(", "1", ",", " ", "0", ")">>,
     <<"0", "X", "f", "f", "f">>}

\* Strings of no supported form.
MalformedStrings ==
    {<<>>,
     <<"r", "g", "b">>,
     <<"R", "g", "b", "(", "0", ".", "5", ",", " ", "0", ",", " ", "1", ")">>,
     <<"#", "1", "2">>,
     <<"r", "g", "b", "(", "x", ",", " ", "1", ",", " ", "1", ")">>,
     <<"r", "g", "b", "(", "1", ",", ",", " ", "1", ")">>,
     <<"x", "y", "z", "(", "1", ",", " ", "0", ",", " ", "0", ")">>,
     <<"r", "g", "b", "(", "0", ".", "5", ",", " ", "0", ",", " ", "1">>}

ColorStrings == AlphaLessStrings \cup AlphaStrings \cup RefusedStrings \cup MalformedStrings

NotHex == <<"x", "y", "z">>
HexStrings == {<<"#", "0", "f", "f">>, <<"0", "x", "0", "0", "F", "F", "0", "0">>,
               <<"0", "X", "f", "f", "f">>, NotHex}

Half == One \div 2
SetterValues == {Half, One + Half}
F32Inputs == {<<0 - Half, Half, One + Half, Undefined>>, <<0, 0, 0, One>>}
UI8Inputs == {<<255 * One, 0, 128 * One, Undefined>>, <<300 * One, 0 - One, 0, 0>>}
RGBInputs == {<<Half, Half, Half, Half>>, <<2 * One, 0 - One, 0, Undefined>>}
HSLInputs == {<<0, One, Half, Undefined>>, <<Third, Half, Half, Half>>,
              <<2 * One, 2 * One, 0 - One, 2 * One>>}
LABInputs == {<<One, Half, Half, Undefined>>, <<Half, One, 0, Half>>,
              <<2 * One, 0 - One, 2 * One, 0 - One>>}
CMYKInputs == {<<0, 0, 0, 0, Undefined>>, <<Half, 0, One, Half, Half>>,
               <<2 * One, 0 - One, 0, 0, 2 * One>>}

---------------------------------------------------------------------------
(* color.ts: class Color.  A colour is [rgba, altered]; a method yields the
   colour after the call and how the call ended. *)

Default(v, d) == IF v = Undefined THEN d ELSE v

\* A method that raises the flag whatever it stored.
ReturnedAltered(t, previous) == [rgba |-> t, altered |-> TRUE, status |-> "ok"]
Returned(t, previous) == [rgba |-> t, altered |-> ~equals4(t, previous), status |-> "ok"]
Thrown(c, error) == [rgba |-> c.rgba, altered |-> c.altered, status |-> error]
Untouched(c) == [rgba |-> c.rgba, altered |-> c.altered, status |-> "ok"]

fromF32(c, red, green, blue, alpha) ==
    LET previous == duplicate4(c.rgba)
    IN  Returned(<<clampf(red), clampf(green), clampf(blue),
                   clampf(Default(alpha, DEFAULT_ALPHA))>>, previous)

fromUI8(c, red, green, blue, alpha) ==
    LET previous == duplicate4(c.rgba)
    IN  Returned(RGBA2rgba(<<red, green, blue, Default(alpha, DEFAULT_ALPHA * 255)>>), previous)

fromRGB(c, red, green, blue, alpha) ==
    LET previous == duplicate4(c.rgba)
    IN  Returned(clampf4(<<red, green, blue, Default(alpha, DEFAULT_ALPHA)>>), previous)

fromHSL(c, hue, saturation, lightness, alpha) ==
    LET previous == duplicate4(c.rgba)
        rgb == hsl2rgb(<<hue, saturation, lightness>>)
        alphaf == clampf(Default(alpha, DEFAULT_ALPHA))
    IN  Returned(rgb \o <<alphaf>>, previous)

fromLAB(c, lightness, greenRed, blueYellow, alpha) ==
    LET previous == clampf4(c.rgba)
        rgb == lab2rgb(<<lightness, greenRed, blueYellow>>)
        alphaf == clampf(Default(alpha, DEFAULT_ALPHA))
    IN  Returned(rgb \o <<alphaf>>, previous)

fromCMYK(c, cyan, magenta, yellow, key, alpha) ==
    LET previous == duplicate4(c.rgba)
        rgb == cmyk2rgb(<<cyan, magenta, yellow, key>>)
        alphaf == clampf(Default(alpha, DEFAULT_ALPHA))
    IN  Returned(rgb \o <<alphaf>>, previous)

fromHex(c, hex) ==
    LET previous == duplicate4(c.rgba)
        parsed == hex2rgba(hex)
    IN  IF parsed.status # "ok" THEN Thrown(c, parsed.status)
        ELSE Returned(parsed.value, previous)

\* What fromString works out from the string alone, before it looks at the colour.
ParseColorString(colorstr) ==
    LET isHexString == HexFormatTest(colorstr)
        isColorString == IF isHexString THEN FALSE ELSE ColorStringTest(colorstr)
        matches == ColorStringMatch(colorstr)
    IN  [isHexString |-> isHexString, isColorString |-> isColorString, matches |-> matches,
         parsed |-> JsonParseList(matches.inner)]

\* ParseColorString of the strings the Color under test is driven with, worked out once.
ParsedColorStrings == {<<s, ParseColorString(s)>> : s \in ColorStrings}

Parse(colorstr) ==
    IF colorstr \in ColorStrings
    THEN (CHOOSE p \in ParsedColorStrings : p[1] = colorstr)[2]
    ELSE ParseColorString(colorstr)

\* dispatch(parse) is fromString once the tests, the match and JSON.parse are done.
fromString(c, colorstr, alpha) ==
    LET dispatch(parse) ==
            LET isHexString == parse.isHexString
                isColorString == parse.isColorString
                matches == parse.matches
                parsed == parse.parsed
                values == parsed.values
                rgbaF == RGBa2rgba(values)
            IN  IF ~isColorString /\ ~isHexString THEN Untouched(c)
                ELSE IF isHexString THEN fromHex(c, colorstr)
                ELSE IF ~matches.matched THEN Untouched(c)
                ELSE IF parsed.status # "ok" THEN Thrown(c, parsed.status)
                ELSE IF Len(values) # EncodingLength(matches.encoding)
                THEN Thrown(c, "AssertionError")
                ELSE CASE matches.encoding = "rgb" ->
                              fromRGB(c, values[1], values[2], values[3], alpha)
                       [] matches.encoding = "rgba" ->
                              fromRGB(c, values[1], values[2], values[3], values[4])
                       [] matches.encoding = "RGB" ->
                              fromUI8(c, values[1], values[2], values[3], alpha)
                       [] matches.encoding = "RGBA" ->
                              fromUI8(c, values[1], values[2], values[3], values[4])
                       [] matches.encoding = "RGBa" ->
                              fromRGB(c, rgbaF[1], rgbaF[2], rgbaF[3], rgbaF[4])
                       [] matches.encoding = "hsl" ->
                              fromHSL(c, values[1], values[2], values[3], alpha)
                       [] matches.encoding = "hsla" ->
                              fromHSL(c, values[1], values[2], values[3], values[4])
                       [] matches.encoding = "lab" ->
                              fromLAB(c, values[1], values[2], values[3], alpha)
                       [] matches.encoding = "laba" ->
                              fromLAB(c, values[1], values[2], values[3], values[4])
                       [] matches.encoding = "cmyk" ->
                              fromCMYK(c, values[1], values[2], values[3], values[4], alpha)
                       [] matches.encoding = "cmyka" ->
                              fromCMYK(c, values[1], values[2], values[3], values[4], values[5])
                       [] OTHER -> Untouched(c)
    IN  dispatch(Parse(colorstr))

deserialize(c, chars) == fromString(c, chars, One)

\* The setters of r, g, b and a: component i is 1..4.
setComponent(c, i, value) ==
    LET previous == duplicate4(c.rgba)
    IN  Returned([c.rgba EXCEPT ![i] = clampf(value)], previous)

\* The flag after altered(clear); the call returns the flag before it.
alteredAfter(c, clear) == IF ~c.altered THEN FALSE ELSE IF clear THEN FALSE ELSE TRUE

---------------------------------------------------------------------------
(* The Color under test: constructed with its defaults, then driven through
   its setters, its from...() methods and altered(). *)

this == [rgba |-> rgba, altered |-> altered]

Store(name, a, r) ==
    /\ rgba' = r.rgba
    /\ altered' = r.altered
    /\ status' = r.status
    /\ op' = name
    /\ arg' = a
    /\ result' = <<>>
    /\ UNCHANGED <<text, src, scale, heap, call>>

Init ==
    /\ rgba = <<0, 0, 0, DEFAULT_ALPHA>>
    /\ altered = FALSE
    /\ op = "new"
    /\ arg = <<>>
    /\ status = "ok"
    /\ result = <<>>
    /\ text = <<>>
    /\ src = <<>>
    /\ scale = <<>>
    /\ heap = <<>>
    /\ call = <<>>

SetR == \E v \in SetterValues : Store("r", <<v>>, setComponent(this, 1, v))
SetG == \E v \in SetterValues : Store("g", <<v>>, setComponent(this, 2, v))
SetB == \E v \in SetterValues : Store("b", <<v>>, setComponent(this, 3, v))
SetA == \E v \in SetterValues : Store("a", <<v>>, setComponent(this, 4, v))
FromF32 == \E t \in F32Inputs : Store("fromF32", t, fromF32(this, t[1], t[2], t[3], t[4]))
FromUI8 == \E t \in UI8Inputs : Store("fromUI8", t, fromUI8(this, t[1], t[2], t[3], t[4]))
FromRGB == \E t \in RGBInputs : Store("fromRGB", t, fromRGB(this, t[1], t[2], t[3], t[4]))
FromHSL == \E t \in HSLInputs : Store("fromHSL", t, fromHSL(this, t[1], t[2], t[3], t[4]))
FromLAB == \E t \in LABInputs : Store("fromLAB", t, fromLAB(this, t[1], t[2], t[3], t[4]))
FromCMYK ==
    \E t \in CMYKInputs : Store("fromCMYK", t, fromCMYK(this, t[1], t[2], t[3], t[4], t[5]))
FromHex == \E s \in HexStrings : Store("fromHex", s, fromHex(this, s))
FromString == \E s \in ColorStrings : Store("fromString", s, fromString(this, s, Undefined))
Deserialize == \E s \in ColorStrings : Store("deserialize", s, deserialize(this, s))

Altered ==
    \E clear \in BOOLEAN :
        /\ result' = altered
        /\ altered' = alteredAfter(this, clear)
        /\ op' = "altered"
        /\ arg' = <<clear>>
        /\ status' = "ok"
        /\ UNCHANGED <<rgba, text, src, scale, heap, call>>

Next ==
    \/ SetR \/ SetG \/ SetB \/ SetA
    \/ FromF32 \/ FromUI8 \/ FromRGB \/ FromHSL \/ FromLAB \/ FromCMYK \/ FromHex
    \/ FromString \/ Deserialize
    \/ Altered

Spec == Init /\ [][Next]_vars

---------------------------------------------------------------------------
(* Claims about the Color under test. *)

Mutators == {"r", "g", "b", "a", "fromF32", "fromUI8", "fromRGB", "fromHSL", "fromLAB",
             "fromCMYK", "fromHex", "fromString", "deserialize"}

Rejected(s) ==
    LET rejected(p) == ~p.isHexString /\ (~p.isColorString \/ ~p.matches.matched)
    IN  rejected(Parse(s))

\* The last call was a mutator that got as far as storing a tuple.
Stored == /\ op \in Mutators
          /\ status = "ok"
          /\ op \in {"fromString", "deserialize"} => ~Rejected(arg)

\* C2 as stated: after any setter or from...() call that returns, the flag is raised
\* exactly when the tuple differs from the tuple before the call, and altered(true)
\* lowers it.
C2_AlteredIffChangedAnyCall ==
    [][/\ (op' \in Mutators /\ status' = "ok") => altered' = (rgba' # rgba)
       /\ op' = "altered" => result' = altered
       /\ (op' = "altered" /\ (arg' = <<TRUE>> \/ ~altered)) => ~altered']_vars

\* C2 (amended): the flag is raised exactly when the tuple differs after every setter
\* and every from...() call that stores a tuple; a call that refuses its string or
\* throws leaves tuple and flag as they were; altered() returns the flag, and after
\* altered(true) the flag stays lowered until a call stores a different tuple.
C2_AlteredIffChanged ==
    [][/\ Stored' => altered' = (rgba' # rgba)
       /\ (op' \in Mutators /\ ~Stored') => (altered' = altered /\ rgba' = rgba)
       /\ op' = "altered" => (result' = altered /\ rgba' = rgba)
       /\ (op' = "altered" /\ (arg' = <<TRUE>> \/ ~altered)) => ~altered']_vars

\* A setter was handed an out-of-range value that clamps to the current value.
C2_Witness == op = "a" /\ arg[1] > One /\ rgba[4] = One /\ ~altered /\ status = "ok"

\* A valid hexadecimal form, or a supported encoding followed by a parenthesised
\* list of numbers.
WellFormed(s) ==
    LET wellFormed(p) ==
            \/ p.isHexString
            \/ /\ p.isColorString
               /\ p.matches.matched
               /\ p.matches.encoding # ""
               /\ p.parsed.status = "ok"
    IN  wellFormed(Parse(s))

\* C3: for a string that is not well-formed, fromString and deserialize return
\* without throwing and leave the tuple and the altered flag as they were.
C3_MalformedLeavesState ==
    [][(op' \in {"fromString", "deserialize"} /\ ~WellFormed(arg'))
           => (status' = "ok" /\ rgba' = rgba /\ altered' = altered)]_vars

\* The number of hexadecimal digits behind the optional prefix.
HexDigitCount(s) ==
    IF s # <<>> /\ s[1] = "#" THEN Len(s) - 1
    ELSE IF Len(s) >= 2 /\ ToLower(s[2]) = "x" THEN Len(s) - 2
    ELSE Len(s)

\* A well-formed string without alpha: rgb, RGB, hsl, lab, cmyk, or 3 or 6 hex digits.
AlphaLess(s) ==
    LET alphaLess(p) ==
            \/ p.isHexString /\ HexDigitCount(s) \in {3, 6}
            \/ /\ ~p.isHexString
               /\ WellFormed(s)
               /\ p.matches.encoding \in {"rgb", "RGB", "hsl", "lab", "cmyk"}
    IN  alphaLess(Parse(s))

\* C6: after deserialize(text) returns for a well-formed string without alpha
\* information, the stored alpha component is exactly 1.
C6_DeserializeAlphaOne ==
    (op = "deserialize" /\ status = "ok" /\ AlphaLess(arg)) => rgba[4] = One

---------------------------------------------------------------------------
(* hex2rgba as a function of its string: one call per behaviour. *)

MaxHexRun == 4
HexAlphabet == {"0", "8", "f", "F", "g"}
HexPrefixes == {<<>>, <<"#">>, <<"0", "x">>, <<"0", "X">>}
HexRuns == UNION {[1..n -> HexAlphabet] : n \in 0..MaxHexRun}
\* Runs of up to MaxHexRun characters, each also doubled and extended by one character.
HexBodies == HexRuns \cup {r \o r : r \in HexRuns} \cup {r \o r \o <<"0">> : r \in HexRuns}
HexInputs == {p \o b : p \in HexPrefixes, b \in HexBodies}

InitHex ==
    /\ arg \in HexInputs
    /\ op = "input"
    /\ status = "ok"
    /\ result = <<>>
    /\ rgba = <<0, 0, 0, DEFAULT_ALPHA>>
    /\ altered = FALSE
    /\ text = <<>>
    /\ src = <<>>
    /\ scale = <<>>
    /\ heap = <<>>
    /\ call = <<>>

Hex2rgba ==
    /\ op = "input"
    /\ op' = "hex2rgba"
    /\ \E r \in {hex2rgba(arg)} :
           /\ status' = r.status
           /\ result' = IF r.status = "ok" THEN r.value ELSE <<>>
    /\ UNCHANGED <<arg, rgba, altered, text, src, scale, heap, call>>

NextHex == Hex2rgba

SpecHex == InitHex /\ [][NextHex]_vars

\* C4: hex2rgba neither throws nor fails an assertion for any string; a string that
\* does not match the hex grammar yields [0, 0, 0, 1], and a matching one (with a
\* '#' or '0x' prefix in any letter case) yields four numbers in [0, 1].
C4_Hex2rgbaTotal ==
    op = "hex2rgba" =>
        /\ status = "ok"
        /\ ~HexFormatTest(arg) => result = <<0, 0, 0, One>>
        /\ HexFormatTest(arg) => \A i \in 1..4 : 0 <= result[i] /\ result[i] <= One

\* The digits of a hexadecimal string behind its '#' or '0x'.
HexDigitsOf(s) == SubSeq(s, Len(s) - HexDigitCount(s) + 1, Len(s))

\* [R/255, G/255, B/255, A/255] read off the digits: pairs in the long forms, each
\* digit doubled in the short forms, A = 255 without alpha digits.
ExpectedHex(digits) ==
    LET n == Len(digits)
        byte(k) == IF n \in {6, 8}
                   THEN 16 * HexValue(digits[2 * k - 1]) + HexValue(digits[2 * k])
                   ELSE 16 * HexValue(digits[k]) + HexValue(digits[k])
        alpha == IF n \in {4, 8} THEN byte(4) ELSE 255
    IN  <<SDiv(byte(1) * One, 255), SDiv(byte(2) * One, 255), SDiv(byte(3) * One, 255),
          SDiv(alpha * One, 255)>>

\* C5: for 3, 4, 6 or 8 hexadecimal digits, optionally prefixed by '#' or '0x',
\* hex2rgba returns [R/255, G/255, B/255, A/255] of the digits, and '#0ff' yields
\* [0, 1, 1, 1].
C5_Hex2rgbaValue ==
    /\ (op = "hex2rgba" /\ HexFormatTest(arg) /\ ~StartsWith(arg, <<"0", "X">>))
           => (status = "ok" /\ result = ExpectedHex(HexDigitsOf(arg)))
    /\ (op = "hex2rgba" /\ arg = <<"#", "0", "f", "f">>) => result = <<0, One, One, One>>

\* hex2rgba has run on a four-digit form with a prefix and returned its alpha byte.
C5_Witness ==
    /\ op = "hex2rgba"
    /\ arg = <<"0", "x", "F", "8", "0", "8">>
    /\ result = <<One, 136 * (One \div 255), 0, 136 * (One \div 255)>>

---------------------------------------------------------------------------
(* serialize() of one colour, deserialize() of the text into a fresh Color. *)

\* Multiples of 10^-4, and 128/255, which is none.
RoundTripValues ==
    {0, FixedStep, 3333 * FixedStep, Half, 9999 * FixedStep, One, 128 * (One \div 255)}
RoundTripColors == [1..4 -> RoundTripValues]

OnGrid(t) == \A i \in 1..4 : t[i] % FixedStep = 0

InitRoundTrip ==
    /\ src \in RoundTripColors
    /\ text = <<>>
    /\ rgba = <<0, 0, 0, DEFAULT_ALPHA>>
    /\ altered = FALSE
    /\ op = "new"
    /\ arg = <<>>
    /\ status = "ok"
    /\ result = <<>>
    /\ scale = <<>>
    /\ heap = <<>>
    /\ call = <<>>

Serialize ==
    /\ op = "new"
    /\ text' = serialize(src)
    /\ op' = "serialize"
    /\ UNCHANGED <<rgba, altered, arg, status, result, src, scale, heap, call>>

DeserializeText ==
    /\ op = "serialize"
    /\ \E r \in {deserialize(this, text)} :
           /\ rgba' = r.rgba
           /\ altered' = r.altered
           /\ status' = r.status
    /\ op' = "deserialize"
    /\ arg' = text
    /\ UNCHANGED <<result, text, src, scale, heap, call>>

NextRoundTrip == Serialize \/ DeserializeText

SpecRoundTrip == InitRoundTrip /\ [][NextRoundTrip]_vars

\* C7: serialize() yields 'rgba(r, g, b, a)' with four numbers that fromString
\* accepts, and for a colour whose components are multiples of 10^-4,
\* deserialize(serialize()) stores exactly that colour.
C7_RoundTrip ==
    /\ op \in {"serialize", "deserialize"} =>
           /\ StartsWith(text, Prefix("rgba") \o <<"(">>)
           /\ \A p \in {ParseColorString(text)} :
                  /\ p.matches.encoding = "rgba"
                  /\ p.parsed.status = "ok"
                  /\ Len(p.parsed.values) = 4
    /\ (op = "deserialize" /\ OnGrid(src)) => (status = "ok" /\ rgba = src)

\* A colour with four-digit fractions came back from its text.
C7_Witness ==
    /\ op = "deserialize"
    /\ src = <<3333 * FixedStep, 0, One, 9999 * FixedStep>>
    /\ text = <<"r", "g", "b", "a", "(", "0", ".", "3", "3", "3", "3", ",", " ", "0", ".", "0", "0", "0", "0", ",", " ", "1", ".", "0", "0", "0", "0", ",", " ", "0", ".", "9", "9", "9", "9", ")">>
    /\ rgba = src

---------------------------------------------------------------------------
(* color.ts: construction and read access of Color objects. *)

NewColor == [rgba |-> <<0, 0, 0, DEFAULT_ALPHA>>, altered |-> FALSE]
AsColor(r) == [rgba |-> r.rgba, altered |-> r.altered]

\* new Color(rgba) for a 4-tuple, which is also Color.clone.
ColorFrom4(t) == AsColor(fromF32(NewColor, t[1], t[2], t[3], t[4]))
clone(c) == ColorFrom4(c.rgba)

rgb(c) == <<c.rgba[1], c.rgba[2], c.rgba[3]>>
hsl(c) == rgb2hsl(rgb(c))
lab(c) == rgb2lab(rgb(c))
cmyk(c) == rgb2cmyk(rgb(c))

\* The getters hsla, laba and cmyka: the tuple t with the alpha of c appended.
WithAlpha(t, c) == t \o <<c.rgba[4]>>

\* Color.tuple for the encodings of getEncodingFromSpace.
tuple(c, encoding) ==
    CASE encoding = "rgb" -> rgb(c)
      [] encoding = "hsl" -> hsl(c)
      [] encoding = "hsla" -> WithAlpha(hsl(c), c)
      [] encoding = "lab" -> lab(c)
      [] encoding = "laba" -> WithAlpha(lab(c), c)
      [] encoding = "cmyk" -> cmyk(c)
      [] encoding = "cmyka" -> WithAlpha(cmyk(c), c)
      [] OTHER -> duplicate4(c.rgba)

getEncodingFromSpace(space, alpha) ==
    CASE space = "rgb" -> IF alpha THEN "rgba" ELSE "rgb"
      [] space = "hsl" -> IF alpha THEN "hsla" ELSE "hsl"
      [] space = "lab" -> IF alpha THEN "laba" ELSE "lab"
      [] space = "cmyk" -> IF alpha THEN "cmyka" ELSE "cmyk"

---------------------------------------------------------------------------
(* lerp.ts: interpolation of two colours. *)

\* An interpolation that forgets the second tuple.
vec4lerpFirst(x, y, a) == [i \in 1..4 |-> MulOne(One - a, x[i])]

vec4lerp(x, y, a) == [i \in 1..4 |-> x[i] + MulOne(a, y[i] - x[i])]

\* In each colour space, store(r) is the from...() call on the new Color with the
\* interpolated tuple r.
lerp(x, y, a, space) ==
    IF a <= 0 THEN ColorFrom4(x.rgba)
    ELSE IF a >= One THEN ColorFrom4(y.rgba)
    ELSE CASE space = "cmyk" ->
                  LET alpha == mix(x.rgba[4], y.rgba[4], a)
                      store(r) == AsColor(fromCMYK(NewColor, r[1], r[2], r[3], r[4], alpha))
                  IN  store(vec4lerp(cmyk(x), cmyk(y), a))
           [] space = "lab" ->
                  LET store(r) == AsColor(fromLAB(NewColor, r[1], r[2], r[3], r[4]))
                  IN  store(vec4lerp(WithAlpha(lab(x), x), WithAlpha(lab(y), y), a))
           [] space = "hsl" ->
                  LET store(r) == AsColor(fromHSL(NewColor, r[1], r[2], r[3], r[4]))
                  IN  store(vec4lerp(WithAlpha(hsl(x), x), WithAlpha(hsl(y), y), a))
           [] space = "rgb" ->
                  LET store(r) == AsColor(fromRGB(NewColor, r[1], r[2], r[3], r[4]))
                  IN  store(vec4lerp(x.rgba, y.rgba, a))

---------------------------------------------------------------------------
(* colorscale.ts: class ColorScale.  The Color objects live in a heap (a
   sequence); a scale's stops are references into it, so two stops can be
   one object.  Positions are [given, values]: an omitted array has given
   FALSE. *)

\* A decoder that reads the first colour whatever the offset.
DecodeFirstColor(array, encoding, i) ==
    AsColor(fromF32(NewColor, array[1], array[2], array[3], Undefined))

\* One pass of the decoding loop: the colour at offset i of the interleaved array.
DecodeColor(array, encoding, i) ==
    CASE encoding = "RGB" ->
             AsColor(fromUI8(NewColor, array[i + 1], array[i + 2], array[i + 3], Undefined))
      [] encoding = "RGBA" ->
             AsColor(fromUI8(NewColor, array[i + 1], array[i + 2], array[i + 3], array[i + 4]))
      [] encoding = "rgb" ->
             AsColor(fromF32(NewColor, array[i + 1], array[i + 2], array[i + 3], Undefined))
      [] encoding = "rgba" ->
             AsColor(fromF32(NewColor, array[i + 1], array[i + 2], array[i + 3], array[i + 4]))
      [] OTHER -> NewColor

\* An inner loop that takes the stop after lower without looking at its position.
SearchUpperNext(u, size, position, positions) == IF u >= size THEN size ELSE u

\* An inner loop that also passes a stop lying exactly at the position.
RECURSIVE SearchUpperPast(_, _, _, _)
SearchUpperPast(u, size, position, positions) ==
    IF u >= size THEN size
    ELSE IF positions[u + 1] <= position
    THEN SearchUpperPast(u + 1, size, position, positions)
    ELSE u

\* The inner loop: the first u < size with positions[u] >= position, or size.
RECURSIVE SearchUpper(_, _, _, _)
SearchUpper(u, size, position, positions) ==
    IF u >= size THEN size
    ELSE IF positions[u + 1] < position THEN SearchUpper(u + 1, size, position, positions)
    ELSE u

\* The resampling loop from step i on.  st holds lower, upper, the stops pushed
\* so far, the heap, the number of lerp calls made, and of every interpolation
\* step the slot, its position, the indices used and the weight computed.
RECURSIVE Resample(_, _, _, _)
Resample(i, st, stepCount, positions) ==
    IF i >= stepCount THEN st
    ELSE LET size == Len(positions)
             last == size - 1
             position == IF i = 0 THEN 0 ELSE (i * One) \div (stepCount - 1)
             u == SearchUpper(st.lower + 1, size, position, positions)
             upper == IF u < size THEN u ELSE st.upper
             lower == IF u < size THEN u - 1 ELSE st.lower
             a == DivOne(position - positions[lower + 1],
                         positions[upper + 1] - positions[lower + 1])
             mixed == lerp(st.heap[lower + 1], st.heap[upper + 1], a, "lab")
         IN  IF position <= positions[st.lower + 1]
             THEN Resample(i + 1, [st EXCEPT !.colors = Append(@, st.lower + 1)],
                           stepCount, positions)
             ELSE IF positions[last + 1] <= position
             THEN Resample(i + 1, [st EXCEPT !.colors = Append(@, last + 1)],
                           stepCount, positions)
             ELSE Resample(i + 1,
                           [lower |-> lower, upper |-> upper,
                            colors |-> Append(st.colors, Len(st.heap) + 1),
                            heap |-> Append(st.heap, mixed),
                            lerps |-> st.lerps + 1,
                            steps |-> Append(st.steps,
                                             [slot |-> i, position |-> position,
                                              lower |-> lower, upper |-> upper,
                                              a |-> a])],
                           stepCount, positions)

NoScale == [status |-> "ok", colors |-> <<>>, heap |-> <<>>, lerps |-> 0, steps |-> <<>>]

\* ColorScale.fromArray: the stops of the scale it returns, the Color objects it
\* created (the decoded colours first), and the number of lerp calls it made.
fromArray(array, encoding, stepCount, positions) ==
    LET stride == EncodingLength(encoding)
        size == Len(array) \div stride
        colors == [k \in 1..size |-> DecodeColor(array, encoding, (k - 1) * stride)]
        pushed == IF stepCount = 1 THEN <<1>> ELSE <<>>
        spread == [k \in 1..size |-> IF k = 1 THEN 0 ELSE ((k - 1) * One) \div (size - 1)]
        values == IF positions.given THEN positions.values ELSE spread
        scaleOf(done) == [status |-> "ok", colors |-> done.colors, heap |-> done.heap,
                          lerps |-> done.lerps, steps |-> done.steps]
    IN  IF stepCount = 0 \/ Len(array) = 0 THEN NoScale
        ELSE IF ~positions.given /\ stepCount = size
        THEN [status |-> "ok", colors |-> [k \in 1..size |-> k], heap |-> colors, lerps |-> 0,
              steps |-> <<>>]
        ELSE IF Len(values) # size THEN [NoScale EXCEPT !.status = "AssertionError"]
        ELSE scaleOf(Resample(0, [lower |-> 0, upper |-> 1, colors |-> pushed, heap |-> colors,
                                  lerps |-> 0, steps |-> <<>>], stepCount, values))

---------------------------------------------------------------------------
(* The arrays the scales under test are built from. *)

MaxColors == 3
MaxStepCount == 4
MaxInverts == 2

Encodings == {"RGB", "RGBA", "rgb", "rgba"}

\* The colours the arrays are made of, by encoding; bytes are whole multiples of One.
BaseColors(encoding) ==
    CASE encoding = "RGB" ->
             <<<<255 * One, 0, 128 * One>>, <<121 * One, 12 * One, 42 * One>>,
               <<21 * One, 0, 90 * One>>>>
      [] encoding = "RGBA" ->
             <<<<255 * One, 0, 0, 255 * One>>, <<0, 0, 255 * One, 128 * One>>,
               <<300 * One, 255 * One, 0, 0>>>>
      [] encoding = "rgb" -> <<<<Half, Half, Half>>, <<One, 0, 0>>, <<0, One + Half, One>>>>
      [] encoding = "rgba" ->
             <<<<Half, Half, Half, One \div 5>>, <<0, 0, One, One>>, <<One, One, 0, Half>>>>

\* The interleaved array of n colours.
RECURSIVE ArrayOf(_, _)
ArrayOf(encoding, n) ==
    IF n = 0 THEN <<>>
    ELSE ArrayOf(encoding, n - 1)
             \o BaseColors(encoding)[((n - 1) % Len(BaseColors(encoding))) + 1]

\* Black and white as bytes.
BlackWhite == [array |-> <<0, 0, 0, 255 * One, 255 * One, 255 * One>>, encoding |-> "RGB"]

ArrayInputs ==
    {[array |-> ArrayOf(e, n), encoding |-> e] : e \in Encodings, n \in 0..MaxColors}
        \cup {BlackWhite}

NoPositions == [given |-> FALSE, values |-> <<>>]

\* The builds of the scales that are written out as arrays.
StopBuilds ==
    {<<[array |-> ArrayOf("rgba", n), encoding |-> "rgba"], n, NoPositions>> :
         n \in 1..MaxColors}
        \cup {<<[array |-> <<>>, encoding |-> "rgba"], 1, NoPositions>>,
                <<BlackWhite, 3, NoPositions>>}

\* daltonize of the colours of those scales, worked out once.
StopTuples ==
    UNION {{rgb(c) : c \in {r.heap[k] : k \in 1..Len(r.heap)}} :
               r \in {fromArray(b[1].array, b[1].encoding, b[2], b[3]) : b \in StopBuilds}}
Gammas == {One, DEFAULT_GAMMA}
DaltonizedStops ==
    [key \in StopTuples \X (Deficiencies \ {"None"}) \X Gammas |->
         daltonize(key[1], key[2], key[3])]

Daltonize(tuple3, deficiency, gamma) ==
    IF <<tuple3, deficiency, gamma>> \in DOMAIN DaltonizedStops
    THEN DaltonizedStops[<<tuple3, deficiency, gamma>>]
    ELSE daltonize(tuple3, deficiency, gamma)

---------------------------------------------------------------------------
(* colorscale.ts: the queries *)

\* What a query hands back: nothing, a stop of the scale, or a new Color object.
Nothing == [defined |-> FALSE, ref |-> 0, rgba |-> <<>>]
Stop(sc, hp, index) == [defined |-> TRUE, ref |-> sc.colors[index + 1],
                        rgba |-> hp[sc.colors[index + 1]].rgba]
Fresh(c) == [defined |-> TRUE, ref |-> 0, rgba |-> c.rgba]

\* A lerp that answers every position with the last stop.
scaleLerpLast(sc, hp, position, space) ==
    IF Len(sc.colors) = 0 THEN Nothing ELSE Stop(sc, hp, Len(sc.colors) - 1)

\* ColorScale.lerp(position, space)
\* A lerp whose nearest hint gives a tie to the upper stop.
scaleLerpTieUp(sc, hp, position, space) ==
    LET length == Len(sc.colors)
        clamped == Max2(0, Min2(One, position))
        posIndex == position * length
        lower == posIndex \div One
        upper == lower + 1
    IN  IF length = 0 THEN Nothing
        ELSE IF length = 1 THEN Stop(sc, hp, 0)
        ELSE IF clamped <= 0 THEN Stop(sc, hp, 0)
        ELSE IF clamped >= One THEN Stop(sc, hp, length - 1)
        ELSE IF upper >= length THEN Stop(sc, hp, length - 1)
        ELSE IF sc.hint = "nearest"
        THEN Stop(sc, hp, IF posIndex - lower * One < upper * One - posIndex
                          THEN lower ELSE upper)
        ELSE Fresh(lerp(hp[sc.colors[lower + 1]], hp[sc.colors[upper + 1]],
                        posIndex - lower * One, space))

scaleLerp(sc, hp, position, space) ==
    LET length == Len(sc.colors)
        clamped == Max2(0, Min2(One, position))
        posIndex == position * length
        lower == posIndex \div One
        upper == lower + 1
    IN  IF length = 0 THEN Nothing
        ELSE IF length = 1 THEN Stop(sc, hp, 0)
        ELSE IF clamped <= 0 THEN Stop(sc, hp, 0)
        ELSE IF clamped >= One THEN Stop(sc, hp, length - 1)
        ELSE IF upper >= length THEN Stop(sc, hp, length - 1)
        ELSE IF sc.hint = "nearest"
        THEN Stop(sc, hp, IF posIndex - lower * One <= upper * One - posIndex
                          THEN lower ELSE upper)
        ELSE Fresh(lerp(hp[sc.colors[lower + 1]], hp[sc.colors[upper + 1]],
                        posIndex - lower * One, space))

\* ColorScale.color(index)
color(sc, hp, index) ==
    IF index < 0 \/ index >= Len(sc.colors) THEN Nothing ELSE Stop(sc, hp, index)

Reverse(seq) == [i \in 1..Len(seq) |-> seq[Len(seq) + 1 - i]]

\* An invert that flips the flag and leaves the stops in place.
invertFlag(sc) == [sc EXCEPT !.inverted = ~@]

\* ColorScale.invert()
invert(sc) == [sc EXCEPT !.colors = Reverse(@), !.inverted = ~@]

\* Storing x * 255 in a Uint8ClampedArray: rounded to the nearest whole number,
\* a tie to the even one, and kept within 0..255.
ToUint8Clamped(x) ==
    LET q == (x * 255) \div One
        r == (x * 255) % One
        nearest == IF 2 * r < One THEN q
                   ELSE IF 2 * r > One THEN q + 1
                   ELSE IF q % 2 = 0 THEN q ELSE q + 1
    IN  IF x <= 0 THEN 0 ELSE IF nearest > 255 THEN 255 ELSE nearest

\* bits[index] = value of a typed array: a write past the end is dropped.
Write(bits, index, value) ==
    IF index + 1 \in DOMAIN bits THEN [bits EXCEPT ![index + 1] = value] ELSE bits

\* A clone that is the stop itself.
CloneAlias(hp, ref) == [heap |-> hp, ref |-> ref]

\* color = Color.clone(this.color(i)!): a new Color object with the stop's tuple.
CloneOf(hp, ref) == [heap |-> Append(hp, clone(hp[ref])), ref |-> Len(hp) + 1]

\* tuple = daltonize(color.rgb, deficiency, gamma);
\* color.fromRGB(tuple[0], tuple[1], tuple[2], color.a)
Daltonized(c, deficiency, gamma) ==
    LET store(t) == AsColor(fromRGB(c, t[1], t[2], t[3], c.rgba[4]))
    IN  store(Daltonize(rgb(c), deficiency, gamma))

\* A tuple that is the RGB tuple in every encoding.
tupleRgb(c, encoding) == rgb(c)

\* color.tuple(encoding) of a colour whose components can be NaN: each conversion
\* from RGB spreads a NaN to every component it computes.
tupleOf(c, encoding) ==
    IF encoding \in {"rgb", "rgba"} \/ \A k \in 1..3 : c.rgba[k] # NaN
    THEN tuple(c, encoding)
    ELSE IF encoding \in {"hsla", "laba"} THEN <<NaN, NaN, NaN, c.rgba[4]>>
    ELSE IF encoding = "cmyk" THEN <<NaN, NaN, NaN, NaN>>
    ELSE <<NaN, NaN, NaN>>

\* The array with the components of tuple t written at stop i.
Fill(bits, i, t, stride, asByte) ==
    LET v(j) == IF asByte THEN ToUint8Clamped(t[j + 1]) ELSE t[j + 1]
        b0 == Write(bits, i * stride + 0, v(0))
        b1 == Write(b0, i * stride + 1, v(1))
        b2 == Write(b1, i * stride + 2, v(2))
    IN  IF Len(t) = 4 THEN Write(b2, i * stride + 3, v(3)) ELSE b2

\* The loop of bitsUI8 and bitsF32 from stop i on.  st holds the array filled so
\* far and the heap; each pass clones the stop, corrects the clone when the scale
\* has a deficiency set, and writes the clone's tuple.
RECURSIVE FillBits(_, _, _, _, _, _)
FillBits(i, st, sc, stride, encoding, asByte) ==
    IF i >= Len(sc.colors) THEN st
    ELSE Let(CloneOf(st.heap, sc.colors[i + 1]), LAMBDA cl :
         Let(IF sc.deficiency = "None" THEN cl.heap
             ELSE [cl.heap EXCEPT ![cl.ref] = Daltonized(@, sc.deficiency, sc.gamma)],
             LAMBDA hp :
         Let(tupleOf(hp[cl.ref], encoding), LAMBDA t :
         Let([bits |-> Fill(st.bits, i, t, stride, asByte), heap |-> hp], LAMBDA next :
             FillBits(i + 1, next, sc, stride, encoding, asByte)))))

\* bitsUI8 and bitsF32: the array they return, and the heap they leave.
Bits(sc, hp, space, alpha, asByte) ==
    LET size == Len(sc.colors)
        stride == IF alpha THEN 4 ELSE 3
        encoding == getEncodingFromSpace(space, space # "cmyk" /\ alpha)
    IN  FillBits(0, [bits |-> [k \in 1..(size * stride) |-> 0], heap |-> hp], sc, stride,
                 encoding, asByte)

bitsUI8(sc, hp, space, alpha) == Bits(sc, hp, space, alpha, TRUE)
bitsF32(sc, hp, space, alpha) == Bits(sc, hp, space, alpha, FALSE)

---------------------------------------------------------------------------
(* A ColorScale built by one fromArray call, then inverted and queried. *)

PositionLists ==
    {<<Half>>, <<0, One>>, <<0 - Half, Half>>, <<One, 0>>, <<0, Half, One>>,
     <<2 * One, 0, One>>, <<0, 0, One>>, <<0 - One, 0, 2 * One>>}
PositionInputs == {NoPositions} \cup {[given |-> TRUE, values |-> v] : v \in PositionLists}

LerpInputs == {<<0 - Half, "hsl">>, <<Third, "rgb">>, <<Half, "lab">>, <<Half, "cmyk">>,
               <<One, "rgb">>, <<2 * One, "lab">>}
ColorIndexes == {0 - 1, 0, 1, MaxStepCount + 1}
BitsInputs == {<<"rgb", FALSE>>, <<"rgb", TRUE>>, <<"hsl", TRUE>>, <<"lab", FALSE>>,
               <<"cmyk", FALSE>>, <<"cmyk", TRUE>>}

\* A scale as its constructor leaves it.
EmptyScale == [colors |-> <<>>, inverted |-> FALSE, hint |-> "linear",
               deficiency |-> "None", gamma |-> DEFAULT_GAMMA]

InitScale ==
    /\ scale = EmptyScale
    /\ heap = <<>>
    /\ call = <<>>
    /\ op = "new"
    /\ arg = <<>>
    /\ status = "ok"
    /\ result = <<>>
    /\ rgba = <<0, 0, 0, DEFAULT_ALPHA>>
    /\ altered = FALSE
    /\ text = <<>>
    /\ src = <<>>

\* scale = ColorScale.fromArray(in.array, in.encoding, stepCount, positions)
Build(in, stepCount, positions) ==
    /\ op = "new"
    /\ \E r \in {fromArray(in.array, in.encoding, stepCount, positions)} :
           /\ scale' = [EmptyScale EXCEPT !.colors = r.colors]
           /\ heap' = r.heap
           /\ status' = r.status
           /\ call' = [array |-> in.array, encoding |-> in.encoding,
                       stepCount |-> stepCount, positions |-> positions,
                       status |-> r.status, lerps |-> r.lerps, steps |-> r.steps,
                       inverts |-> 0]
    /\ op' = "fromArray"
    /\ UNCHANGED <<arg, result, rgba, altered, text, src>>

FromArray ==
    \E in \in ArrayInputs, stepCount \in 0..MaxStepCount, positions \in PositionInputs :
        Build(in, stepCount, positions)

\* fromArray has returned a scale.
Built == op # "new" /\ call.status = "ok"

Query(name, a, r) ==
    /\ Built
    /\ op' = name
    /\ arg' = a
    /\ result' = r
    /\ status' = "ok"
    /\ UNCHANGED <<scale, heap, call, rgba, altered, text, src>>

Invert ==
    /\ Built
    /\ call.inverts < MaxInverts
    /\ scale' = invert(scale)
    /\ call' = [call EXCEPT !.inverts = @ + 1]
    /\ op' = "invert"
    /\ arg' = <<>>
    /\ result' = <<>>
    /\ status' = "ok"
    /\ UNCHANGED <<heap, rgba, altered, text, src>>

\* A query that creates objects: r is the value it returns and the heap it leaves.
\* The objects it created are unreachable when it returns and are dropped.
Allocating(name, a, r) ==
    /\ Built
    /\ op' = name
    /\ arg' = a
    /\ result' = r.bits
    /\ heap' = SubSeq(r.heap, 1, Len(heap))
    /\ status' = "ok"
    /\ UNCHANGED <<scale, call, rgba, altered, text, src>>

Lerp == \E in \in LerpInputs : Query("lerp", in, scaleLerp(scale, heap, in[1], in[2]))
ColorAt == \E index \in ColorIndexes : Query("color", <<index>>, color(scale, heap, index))
BitsUI8 ==
    \E in \in BitsInputs : \E r \in {bitsUI8(scale, heap, in[1], in[2])} :
        Allocating("bitsUI8", in, r)
BitsF32 ==
    \E in \in BitsInputs : \E r \in {bitsF32(scale, heap, in[1], in[2])} :
        Allocating("bitsF32", in, r)

NextScale == FromArray \/ Invert \/ Lerp \/ ColorAt \/ BitsUI8 \/ BitsF32

SpecScale == InitScale /\ [][NextScale]_vars

---------------------------------------------------------------------------
(* A few scales of zero to MaxColors stops, with their settings changed, then
   inverted and queried at every kind of position in every colour space. *)

FewBuilds ==
    {<<[array |-> ArrayOf("rgba", n), encoding |-> "rgba"], k, NoPositions>> :
         n \in 0..MaxColors, k \in {1, MaxColors}}
        \cup {<<[array |-> ArrayOf("rgba", 1), encoding |-> "rgba"], k, NoPositions>> :
                  k \in 1..MaxStepCount}
        \cup {<<[array |-> ArrayOf("RGB", 1), encoding |-> "RGB"], 1,
                [given |-> TRUE, values |-> <<Half>>]>>}

Hints == {"linear", "nearest"}
Spaces == {"rgb", "hsl", "lab", "cmyk"}
Positions == {0 - Half, 0, Third, Half, (9 * One) \div 10, One, 2 * One}

FromArrayFew == \E b \in FewBuilds : Build(b[1], b[2], b[3])

\* scale.<name> = value
Setter(name, value, sc) ==
    /\ Built
    /\ scale' = sc
    /\ op' = name
    /\ arg' = <<value>>
    /\ result' = <<>>
    /\ status' = "ok"
    /\ UNCHANGED <<heap, call, rgba, altered, text, src>>

SetHint == \E h \in Hints : Setter("hint", h, [scale EXCEPT !.hint = h])

LerpAny ==
    \E p \in Positions, space \in Spaces :
        Query("lerp", <<p, space>>, scaleLerp(scale, heap, p, space))
ColorAny == \E index \in 0..MaxColors : Query("color", <<index>>, color(scale, heap, index))

NextQuery == FromArrayFew \/ SetHint \/ Invert \/ LerpAny \/ ColorAny

SpecQuery == InitScale /\ [][NextQuery]_vars

---------------------------------------------------------------------------
(* Scales of zero to MaxColors different stops, and black to white in three
   stops, with a deficiency and a gamma set, written out as arrays in every
   colour space. *)

FromArrayStops == \E b \in StopBuilds : Build(b[1], b[2], b[3])

SetDeficiency ==
    \E d \in Deficiencies : Setter("deficiency", d, [scale EXCEPT !.deficiency = d])
SetGamma == \E g \in Gammas : Setter("gamma", g, [scale EXCEPT !.gamma = g])

BitsUI8Any ==
    \E space \in Spaces, alpha \in BOOLEAN : \E r \in {bitsUI8(scale, heap, space, alpha)} :
        Allocating("bitsUI8", <<space, alpha>>, r)
BitsF32Any ==
    \E space \in Spaces, alpha \in BOOLEAN : \E r \in {bitsF32(scale, heap, space, alpha)} :
        Allocating("bitsF32", <<space, alpha>>, r)

NextBits ==
    \/ FromArrayStops
    \/ SetHint
    \/ SetDeficiency
    \/ SetGamma
    \/ Invert
    \/ Lerp
    \/ ColorAt
    \/ BitsUI8Any
    \/ BitsF32Any

SpecBits == InitScale /\ [][NextBits]_vars

\* The number of colours in the array of the fromArray call.
DecodedCount == Len(call.array) \div EncodingLength(call.encoding)

\* Colour k of the array, read directly: bytes over 255, floats as they are, kept
\* within [0, 1], alpha 1 when the encoding has none.
DirectDecode(k) ==
    LET stride == EncodingLength(call.encoding)
        bytes == call.encoding \in {"RGB", "RGBA"}
        v(j) == call.array[(k - 1) * stride + j]
        f(x) == clampf(IF bytes THEN SDiv(x, 255) ELSE x)
    IN  <<f(v(1)), f(v(2)), f(v(3)), IF stride = 4 THEN f(v(4)) ELSE One>>

\* C8: for a non-empty array and stepCount >= 1, with or without positions, the
\* scale fromArray returns has exactly stepCount stops, and keeps that length
\* through invert, lerp, color, bitsUI8 and bitsF32.
C8_LengthIsStepCount ==
    (Built /\ call.array # <<>> /\ call.stepCount >= 1)
        => Len(scale.colors) = call.stepCount

\* C9: for stepCount = 1 and a non-empty array, fromArray returns a scale that
\* consists of the first decoded colour only.
C9_StepCountOne ==
    (op = "fromArray" /\ call.status = "ok" /\ call.array # <<>> /\ call.stepCount = 1)
        => (Len(scale.colors) = 1 /\ heap[scale.colors[1]].rgba = DirectDecode(1))

\* C10: without positions and with stepCount equal to the number of decoded colours,
\* fromArray returns the decoded colours in input order, each equal to the directly
\* decoded colour, and makes no interpolation.
C10_FastPath ==
    (op = "fromArray" /\ ~call.positions.given /\ call.stepCount >= 1
         /\ call.stepCount = DecodedCount)
        => /\ call.status = "ok"
           /\ call.lerps = 0
           /\ Len(scale.colors) = DecodedCount
           /\ \A k \in 1..DecodedCount : heap[scale.colors[k]].rgba = DirectDecode(k)

\* Three byte colours were asked for as three steps.
C10_Witness ==
    /\ op = "fromArray"
    /\ call.encoding = "RGB" /\ DecodedCount = 3 /\ call.stepCount = 3
    /\ ~call.positions.given
    /\ Len(scale.colors) = 3
    /\ heap[scale.colors[3]].rgba = <<21 * (One \div 255), 0, 90 * (One \div 255), One>>

---------------------------------------------------------------------------
(* The conversion functions and grayscale, applied to tuples of a grid over
   [0, 1]: each function once, and each conversion followed by its inverse. *)

GridSteps == 6

Levels == {(k * One) \div GridSteps : k \in 0..GridSteps} \cup {One \div 255}

\* RGB2rgb([48, 96, 192]), the colour of the grayscale test.
TestColor == <<48 * (One \div 255), 96 * (One \div 255), 192 * (One \div 255)>>

Tuples3 == {<<r, g, b>> : r \in Levels, g \in Levels, b \in Levels} \cup {TestColor}
Tuples4 == {t \o <<One \div 5>> : t \in Tuples3}

\* The array objects of a call.  A call gets a heap of arrays and the reference
\* of its argument, and answers the heap it leaves and the reference it returns.
\* clampf3, clampf4 and an array literal create a new array.
NewArray(hp, t) == [heap |-> Append(hp, t), ref |-> Len(hp) + 1]

Conversions3 ==
    {"hsl2rgb", "rgb2hsl", "lab2xyz", "xyz2lab", "xyz2rgb", "rgb2xyz", "lab2rgb", "rgb2lab",
     "rgb2cmyk", "rgb2RGB", "rgb2srgb", "srgb2rgb", "srgb2xyz", "xyz2srgb"}
Conversions4 == {"cmyk2rgb", "rgba2RGBA", "RGBA2rgba", "RGBa2rgba"}

\* The components of the array a conversion fills.
ConversionValue(name, t) ==
    CASE name = "hsl2rgb" -> hsl2rgb(t)
      [] name = "rgb2hsl" -> rgb2hsl(t)
      [] name = "lab2xyz" -> lab2xyz(t)
      [] name = "xyz2lab" -> xyz2lab(t)
      [] name = "xyz2rgb" -> xyz2rgb(t)
      [] name = "rgb2xyz" -> rgb2xyz(t)
      [] name = "lab2rgb" -> lab2rgb(t)
      [] name = "rgb2lab" -> rgb2lab(t)
      [] name = "rgb2cmyk" -> rgb2cmyk(t)
      [] name = "cmyk2rgb" -> cmyk2rgb(t)
      [] name = "rgb2RGB" -> rgb2RGB(t)
      [] name = "rgba2RGBA" -> rgba2RGBA(t)
      [] name = "RGBA2rgba" -> RGBA2rgba(t)
      [] name = "RGBa2rgba" -> RGBa2rgba(t)
      [] name = "rgb2srgb" -> rgb2srgb(t, DEFAULT_GAMMA)
      [] name = "srgb2rgb" -> srgb2rgb(t, DEFAULT_GAMMA)
      [] name = "srgb2xyz" -> srgb2xyz(t)
      [] name = "xyz2srgb" -> timesXYZ2sRGB(clampf3(t))

\* xyz2srgb: const srgb = clampf3(xyz); the product is stored in srgb; return xyz.
\* Every other conversion returns the array it created.
ConversionCall(name, hp, ref) ==
    IF name = "xyz2srgb"
    THEN [heap |-> NewArray(hp, ConversionValue(name, hp[ref])).heap, ref |-> ref]
    ELSE NewArray(hp, ConversionValue(name, hp[ref]))

InitConvert ==
    /\ arg \in {<<t>> : t \in Tuples3 \cup Tuples4}
    /\ op = "input"
    /\ result = <<>>
    /\ status = "ok"
    /\ rgba = <<0, 0, 0, DEFAULT_ALPHA>>
    /\ altered = FALSE
    /\ text = <<>>
    /\ src = <<>>
    /\ scale = EmptyScale
    /\ heap = <<>>
    /\ call = <<>>

\* result = name(value)
Applied(name, a, value) ==
    /\ op' = name
    /\ arg' = a
    /\ result' = value
    /\ UNCHANGED <<status, rgba, altered, text, src, scale, heap, call>>

Rgb2hsl == op = "input" /\ Len(arg[1]) = 3 /\ Applied("rgb2hsl", arg, rgb2hsl(arg[1]))
Hsl2rgb == op = "rgb2hsl" /\ Applied("hsl2rgb", arg, hsl2rgb(result))
Rgb2cmyk == op = "input" /\ Len(arg[1]) = 3 /\ Applied("rgb2cmyk", arg, rgb2cmyk(arg[1]))
Cmyk2rgb == op = "rgb2cmyk" /\ Applied("cmyk2rgb", arg, cmyk2rgb(result))
Grayscale ==
    /\ op = "input"
    /\ \E algorithm \in GrayscaleAlgorithms \cup {"undefined"} :
           Applied("grayscale", <<arg[1], algorithm>>, grayscale(arg[1], algorithm))

\* A conversion called with the array arg[1], the only array of the heap.
ConversionCalled ==
    /\ op = "input"
    /\ \E name \in IF Len(arg[1]) = 3 THEN Conversions3 ELSE Conversions4 :
           \E r \in {ConversionCall(name, <<arg[1]>>, 1)} :
               /\ op' = "conversion"
               /\ arg' = <<arg[1], name>>
               /\ result' = r.ref
               /\ heap' = r.heap
    /\ UNCHANGED <<status, rgba, altered, text, src, scale, call>>

\* The tuple with its components at the ends of [0, 1] moved out of range:
\* clampf3 gives the tuple back.
Stretched(t) == [k \in 1..3 |-> IF t[k] = 0 THEN 0 - Half ELSE IF t[k] = One THEN 2 * One ELSE t[k]]

\* daltonize(rgb, deficiency) with the default gamma, of a tuple of the grid or of
\* its stretched form.
DaltonizeCalled ==
    /\ op = "input"
    /\ Len(arg[1]) = 3
    /\ \E deficiency \in Deficiencies \ {"None"}, t \in {arg[1], Stretched(arg[1])} :
           Applied("daltonize", <<t, deficiency>>, daltonize(t, deficiency, DEFAULT_GAMMA))

NextConvert ==
    \/ Rgb2hsl \/ Hsl2rgb \/ Rgb2cmyk \/ Cmyk2rgb \/ Grayscale
    \/ ConversionCalled \/ DaltonizeCalled

SpecConvert == InitConvert /\ [][NextConvert]_vars

\* The positions the resampling loop of the call works with, and the position of
\* output slot i (0-based).
CallPositions ==
    IF call.positions.given THEN call.positions.values
    ELSE [k \in 1..DecodedCount |->
              IF k = 1 THEN 0 ELSE ((k - 1) * One) \div (DecodedCount - 1)]
SlotPosition(i) == IF i = 0 THEN 0 ELSE (i * One) \div (call.stepCount - 1)

NonDecreasing(ps) == \A k \in 1..(Len(ps) - 1) : ps[k] <= ps[k + 1]

\* The colour the claim gives slot i: the first stop, the last stop, or the Lab
\* mix of the stops around the greatest index lo with positions[lo] < p.
ExpectedSlot(i) ==
    LET ps == CallPositions
        p == SlotPosition(i)
        lo == CHOOSE k \in 1..Len(ps) :
                  ps[k] < p /\ \A j \in 1..Len(ps) : ps[j] < p => j <= k
    IN  IF p <= ps[1] THEN DirectDecode(1)
        ELSE IF p >= ps[Len(ps)] THEN DirectDecode(Len(ps))
        ELSE lerp(ColorFrom4(DirectDecode(lo)), ColorFrom4(DirectDecode(lo + 1)),
                  DivOne(p - ps[lo], ps[lo + 1] - ps[lo]), "lab").rgba

\* C11: for stepCount >= 2 and non-decreasing positions (given, or uniform when none
\* are given), output slot i of fromArray at p = i / (stepCount - 1) is the first
\* decoded stop if p <= positions[0], the last if p >= positions[last], and otherwise
\* the Lab interpolation of the two stops that bracket p; without positions the first
\* and the last slot are the first and the last decoded colour.
C11_ResampledSlots ==
    (op = "fromArray" /\ call.status = "ok" /\ call.array # <<>> /\ call.stepCount >= 2
         /\ NonDecreasing(CallPositions))
        => /\ \A i \in 0..(Len(scale.colors) - 1) :
                  heap[scale.colors[i + 1]].rgba = ExpectedSlot(i)
           /\ ~call.positions.given =>
                  /\ heap[scale.colors[1]].rgba = DirectDecode(1)
                  /\ heap[scale.colors[Len(scale.colors)]].rgba = DirectDecode(DecodedCount)

\* Black and white in three steps: black, one mix strictly between them, white.
C11_Witness ==
    /\ op = "fromArray"
    /\ call.array = BlackWhite.array /\ call.stepCount = 3 /\ ~call.positions.given
    /\ call.lerps = 1
    /\ heap[scale.colors[1]].rgba = <<0, 0, 0, One>>
    /\ \A k \in 1..3 : 0 < heap[scale.colors[2]].rgba[k] /\ heap[scale.colors[2]].rgba[k] < One
    /\ heap[scale.colors[3]].rgba = <<One, One, One, One>>

\* C12: on a scale of two or more stops, with either hint and in any colour space,
\* lerp(p) returns the scale's current first stop for p <= 0 and its current last
\* stop for p >= 1, also after any number of invert() calls.
C12_EndsAreStops ==
    (op = "lerp" /\ Len(scale.colors) >= 2)
        => /\ arg[1] <= 0 => result = Stop(scale, heap, 0)
           /\ arg[1] >= One => result = Stop(scale, heap, Len(scale.colors) - 1)

\* An inverted three-stop scale with the nearest hint was asked below 0: the answer
\* is its first stop, which was the last stop before the inversion.
C12_Witness ==
    /\ op = "lerp" /\ arg[1] < 0
    /\ Len(scale.colors) = 3 /\ scale.inverted /\ scale.hint = "nearest"
    /\ heap[scale.colors[1]].rgba # heap[scale.colors[3]].rgba
    /\ result.ref = scale.colors[1]

C14_InvertParity ==
    /\ op = "new" => ~scale.inverted
    /\ Built =>
           \A original \in {fromArray(call.array, call.encoding, call.stepCount,
                                      call.positions)} :
               /\ scale.inverted <=> call.inverts % 2 = 1
               /\ scale.colors = IF call.inverts % 2 = 1 THEN Reverse(original.colors)
                                  ELSE original.colors
               /\ Len(scale.colors) = Len(original.colors)
               /\ heap = original.heap

\* Three different stops, inverted twice: the built order again.
C14_Witness ==
    /\ op = "invert" /\ call.inverts = 2 /\ ~scale.inverted
    /\ scale.colors = <<1, 2, 3>>
    /\ heap[1].rgba # heap[3].rgba

\* The last call was bitsUI8 or bitsF32.
BitsReturned == op \in {"bitsUI8", "bitsF32"}

\* The array entry for a component v: the byte nearest to v * 255, or v itself.
Entry(v) == IF op = "bitsUI8" THEN ToUint8Clamped(v) ELSE v

\* The array has n * stride entries; the first three entries of stop i are its
\* first three components in the requested space, and with alpha requested the
\* fourth is fourth(i, t), t being the stop's tuple in that space.
BitsLayout(fourth(_, _)) ==
    \A stride \in {IF arg[2] THEN 4 ELSE 3} :
        /\ Len(result) = Len(scale.colors) * stride
        /\ \A i \in 0..(Len(scale.colors) - 1) :
               \A t \in {tuple(heap[scale.colors[i + 1]], arg[1])} :
                   /\ \A k \in 1..3 : result[i * stride + k] = Entry(t[k])
                   /\ arg[2] => result[i * stride + 4] = Entry(fourth(i, t))

StopAlpha(i, t) == heap[scale.colors[i + 1]].rgba[4]
AlphaOrKey(i, t) == IF arg[1] = "cmyk" THEN t[4] ELSE StopAlpha(i, t)

\* C15 as stated: for every scale of n stops, every space and both alpha settings,
\* bitsUI8 and bitsF32 return n * (alpha ? 4 : 3) entries, those of stop i being its
\* first three components in the requested space and, with alpha requested, its
\* alpha as the fourth.
C15_BitsAlphaEntry == BitsReturned => BitsLayout(StopAlpha)

\* C15, amended: on a scale without a deficiency set, the entries are as stated,
\* except that in the cmyk space the fourth entry is the stop's K component.
C15_BitsLayout == (BitsReturned /\ scale.deficiency = "None") => BitsLayout(AlphaOrKey)

\* bitsF32(cmyk, true) on three stops: twelve entries, the fourth of the first stop
\* being its K component and not its alpha.
C15_Witness ==
    /\ op = "bitsF32" /\ arg = <<"cmyk", TRUE>> /\ scale.deficiency = "None"
    /\ Len(scale.colors) = 3 /\ Len(result) = 12
    /\ result[4] = cmyk(heap[scale.colors[1]])[4]
    /\ result[4] # heap[scale.colors[1]].rgba[4]

\* C16: lerp, color, bitsUI8 and bitsF32 leave the scale as it was, bitsUI8 and
\* bitsF32 also with a deficiency set: the stop sequence, the RGBA tuple and the
\* altered flag of every stop, the hint, the inverted flag, the deficiency and the
\* gamma are the same before and after the call.
C16_QueriesLeaveScale ==
    [][op' \in {"lerp", "color", "bitsUI8", "bitsF32"} => (scale' = scale /\ heap' = heap)]_vars

\* bitsUI8 on three stops with a deficiency set returned other bytes than it
\* returns without one: the correction was applied, and not to the stops.
C16_Witness ==
    /\ op = "bitsUI8" /\ arg = <<"rgb", TRUE>>
    /\ scale.deficiency = "Protanope" /\ scale.gamma = DEFAULT_GAMMA
    /\ Len(scale.colors) = 3
    /\ result # bitsUI8([scale EXCEPT !.deficiency = "None"], heap, "rgb", TRUE).bits
    /\ result = bitsUI8(scale, heap, "rgb", TRUE).bits

---------------------------------------------------------------------------
(* Round trips of the conversions *)

\* The arithmetic tolerance of a round trip: 1 / 25500.
Tolerance == One \div 25500

Close(s3, t3) == \A k \in 1..3 : Abs(s3[k] - t3[k]) <= Tolerance

Achromatic(t) == t[1] = t[2] /\ t[2] = t[3]

\* C17: for every RGB tuple c in [0,1]^3, hsl2rgb(rgb2hsl(c)) equals c up to
\* the arithmetic tolerance; for achromatic c, rgb2hsl returns hue 0 and
\* saturation 0 and the round trip returns c exactly.
C17_HslRoundTrip ==
    /\ (op = "rgb2hsl" /\ Achromatic(arg[1])) => (result[1] = 0 /\ result[2] = 0)
    /\ op = "hsl2rgb" =>
           /\ Close(result, arg[1])
           /\ Achromatic(arg[1]) => result = arg[1]

MaxIsOne(t) == Max3(t[1], t[2], t[3]) = One

\* C19 as stated: for every RGB tuple with max(r, g, b) = 1, rgb2cmyk
\* returns C = M = Y = 0 and K = 0.
C19_MaxOneAllZero ==
    (op = "rgb2cmyk" /\ MaxIsOne(arg[1])) => result = <<0, 0, 0, 0>>

\* C19: for every RGB tuple with max(r, g, b) = 1, rgb2cmyk returns K = 0
\* and C, M, Y = 1 - r, 1 - g, 1 - b up to the arithmetic tolerance, all
\* zero exactly when the tuple is white.
C19_MaxOneKeyZero ==
    (op = "rgb2cmyk" /\ MaxIsOne(arg[1])) =>
        /\ result[4] = 0
        /\ \A k \in 1..3 : Abs(result[k] - (One - arg[1][k])) <= Tolerance
        /\ (\A k \in 1..3 : result[k] = 0) <=> arg[1] = <<One, One, One>>

\* rgb2cmyk of a tuple with maximum 1 that is not white has been taken.
C19_Witness ==
    /\ op = "rgb2cmyk"
    /\ arg[1] = <<One, Half, 0>>
    /\ result = <<0, Half, One, 0>>

---------------------------------------------------------------------------
(* grayscale *)

\* gray is the algorithm's gray value of t, up to the truncation of the
\* fixed-point quotients.
IsGrayOf(gray, t, algorithm) ==
    LET min == Min3(t[1], t[2], t[3])
        max == Max3(t[1], t[2], t[3])
    IN  CASE algorithm = "average" ->
                 3 * gray <= t[1] + t[2] + t[3] /\ t[1] + t[2] + t[3] < 3 * gray + 3
          [] algorithm = "least-saturated-variant" ->
                 2 * gray <= max - min /\ max - min < 2 * gray + 2
          [] algorithm = "minimum-decomposition" -> gray = min
          [] algorithm = "maximum-decomposition" -> gray = max
          [] algorithm = "linear-luminance" ->
                 Abs(gray - (MulDec(t[1], 21260) + MulDec(t[2], 71520) + MulDec(t[3], 7220)))
                     <= 3

\* C20: grayscale(tuple, algorithm) returns a tuple of the arity of its
\* input whose three colour components all equal the algorithm's gray value,
\* with a fourth (alpha) component copied unchanged; without an algorithm it
\* uses linear luminance.
C20_Grayscale ==
    op = "grayscale" =>
        /\ Len(result) = Len(arg[1])
        /\ result[1] = result[2] /\ result[2] = result[3]
        /\ IsGrayOf(result[1], arg[1],
                    IF arg[2] = "undefined" THEN "linear-luminance" ELSE arg[2])
        /\ Len(arg[1]) = 4 => result[4] = arg[1][4]

\* grayscale without an algorithm has been applied to the test colour with
\* an alpha component: 0.3636 three times, and the alpha.
C20_Witness ==
    /\ op = "grayscale"
    /\ arg = <<TestColor \o <<One \div 5>>, "undefined">>
    /\ Abs(result[1] - (3636 * One) \div 10000) <= One \div 10000
    /\ result[4] = One \div 5

---------------------------------------------------------------------------
(* The arrays of the conversion module *)

\* C21: every conversion returns a newly created array holding the converted
\* values: never the array object it was called with, whose components are
\* unchanged after the call.
C21_ConversionsReturnNewArrays ==
    op = "conversion" =>
        /\ result # 1
        /\ heap[1] = arg[1]
        /\ heap[result] = ConversionValue(arg[2], arg[1])

---------------------------------------------------------------------------
(* daltonize *)

\* C22: for every RGB input and each active deficiency, daltonize returns
\* three well-defined numbers in [0,1] (no quotient by zero leaves a NaN or
\* an infinity behind), and for out-of-range input the result of the clamped
\* input.
C22_DaltonizeWellDefined ==
    op = "daltonize" =>
        /\ \A k \in 1..3 : result[k] # NaN /\ result[k] >= 0 /\ result[k] <= One
        /\ result = daltonize(clampf3(arg[1]), arg[2], DEFAULT_GAMMA)

---------------------------------------------------------------------------
(* lerp.ts on Color objects: x and y are references into a heap of Color
   objects, and the call answers the heap it leaves and the reference it
   returns. *)

\* A lerp that hands back the endpoint itself at the ends.
lerpEndpoint(hp, x, y, a, space) ==
    IF a <= 0 THEN [heap |-> hp, ref |-> x]
    ELSE IF a >= One THEN [heap |-> hp, ref |-> y]
    ELSE [heap |-> Append(hp, lerp(hp[x], hp[y], a, space)), ref |-> Len(hp) + 1]

\* Every return of lerp is a new Color(...): new Color(x.rgba), new Color(y.rgba)
\* or new Color().fromXXX(...); the getters it reads create their tuples.
lerpObject(hp, x, y, a, space) ==
    [heap |-> Append(hp, lerp(hp[x], hp[y], a, space)), ref |-> Len(hp) + 1]

LerpColors ==
    {ColorFrom4(t) : t \in {<<0, 0, 0, One>>, <<One, Half, 0, Half>>, <<Third, One, One, 0>>,
                             TestColor \o <<One \div 5>>}}
Weights == {0 - Half, 0, Third, Half, One, 2 * One}

\* Two colours x (object 1) and y (object 2).
InitLerp ==
    /\ \E x \in LerpColors, y \in LerpColors :
           /\ heap = <<x, y>>
           /\ call = [x |-> x, y |-> y]
    /\ op = "new"
    /\ arg = <<>>
    /\ result = 0
    /\ status = "ok"
    /\ rgba = <<0, 0, 0, DEFAULT_ALPHA>>
    /\ altered = FALSE
    /\ text = <<>>
    /\ src = <<>>
    /\ scale = EmptyScale

\* result = lerp(x, y, a, space)
LerpPair ==
    /\ op = "new"
    /\ \E a \in Weights, space \in Spaces : \E r \in {lerpObject(heap, 1, 2, a, space)} :
           /\ arg' = <<a, space>>
           /\ result' = r.ref
           /\ heap' = r.heap
    /\ op' = "lerp"
    /\ UNCHANGED <<status, rgba, altered, text, src, scale, call>>

\* A component of the returned colour is assigned through its setter.
SetReturned ==
    /\ op = "lerp"
    /\ \E i \in 1..4, value \in SetterValues :
           heap' = [heap EXCEPT ![result] = AsColor(setComponent(@, i, value))]
    /\ op' = "set"
    /\ UNCHANGED <<arg, result, status, rgba, altered, text, src, scale, call>>

NextLerp == LerpPair \/ SetReturned

SpecLerp == InitLerp /\ [][NextLerp]_vars

\* C23: lerp(x, y, a, space) never modifies x or y and never returns x or y
\* themselves, also when the returned colour is mutated afterwards; for
\* a <= 0 the new colour equals x, for a >= 1 it equals y, in every space;
\* for 0 < a < 1 in RGB space its four components are x_k + a * (y_k - x_k).
C23_LerpReturnsNewColor ==
    op \in {"lerp", "set"} =>
        /\ heap[1] = call.x /\ heap[2] = call.y
        /\ result \notin {1, 2}
        /\ op = "lerp" =>
               /\ arg[1] <= 0 => heap[result].rgba = call.x.rgba
               /\ arg[1] >= One => heap[result].rgba = call.y.rgba
               /\ (arg[1] > 0 /\ arg[1] < One /\ arg[2] = "rgb") =>
                      \A k \in 1..4 :
                          Abs(heap[result].rgba[k]
                              - (call.x.rgba[k]
                                 + MulOne(arg[1], call.y.rgba[k] - call.x.rgba[k]))) <= 1

\* The colour returned for a <= 0 has been mutated, and x is as it was.
C23_Witness ==
    /\ op = "set"
    /\ arg[1] <= 0
    /\ call.x # call.y
    /\ heap[result].rgba # call.x.rgba
    /\ heap[1] = call.x

---------------------------------------------------------------------------
(* ColorScale.lerp between the ends *)

\* Answer r is the stop of the scale at index (0-based).
IsStop(r, index) == r.defined /\ r.ref = scale.colors[index + 1]

\* C24: on a scale of n >= 2 stops and for 0 < p < 1, lerp(p, space) takes
\* lower = floor(p * n) and upper = lower + 1; with upper >= n it returns the
\* last stop; otherwise 0 <= lower < upper <= n - 1, and under the nearest
\* hint it returns stop lower when p * n - lower <= upper - p * n and stop
\* upper when not, and under the linear hint the pairwise lerp of the stops
\* lower and upper with the weight p * n - lower in the requested space.
C24_LerpBetweenStops ==
    (op = "lerp" /\ Len(scale.colors) >= 2 /\ arg[1] > 0 /\ arg[1] < One) =>
        \A n \in {Len(scale.colors)} : \A lower \in {(arg[1] * n) \div One} :
            IF lower + 1 >= n THEN IsStop(result, n - 1)
            ELSE /\ 0 <= lower /\ lower + 1 <= n - 1
                 /\ scale.hint = "nearest" =>
                        IF 2 * (arg[1] * n) <= (2 * lower + 1) * One
                        THEN IsStop(result, lower) ELSE IsStop(result, lower + 1)
                 /\ scale.hint = "linear" =>
                        /\ result.defined /\ result.ref = 0
                        /\ result.rgba = lerp(heap[scale.colors[lower + 1]],
                                              heap[scale.colors[lower + 2]],
                                              arg[1] * n - lower * One, arg[2]).rgba

\* The middle of a three-stop scale under the nearest hint: half way between
\* the stops 1 and 2, answered with stop 1.
C24_Witness ==
    /\ op = "lerp" /\ arg[1] = Half
    /\ Len(scale.colors) = 3 /\ scale.hint = "nearest"
    /\ heap[scale.colors[2]].rgba # heap[scale.colors[3]].rgba
    /\ result.ref = scale.colors[2]

---------------------------------------------------------------------------
(* The altered flag over a sequence of mutators *)

\* C25: altered() reports whether the colour has changed since the flag was
\* last cleared: a mutator that changes the canonical tuple raises the flag,
\* and no mutator lowers a raised flag, also when it assigns a value equal to
\* the current one.
C25_AlteredUntilCleared ==
    [][op' \in Mutators => (altered' <=> (altered \/ rgba' # rgba))]_vars

---------------------------------------------------------------------------
(* The stops of a built scale, written through their setters. *)

\* scale.color(index).r = value, and likewise g, b and a (component i).
SetStop ==
    /\ op = "fromArray" /\ call.status = "ok"
    /\ \E index \in 0..(Len(scale.colors) - 1), i \in 1..4, value \in SetterValues :
           /\ heap' = [heap EXCEPT ![scale.colors[index + 1]] =
                                       AsColor(setComponent(@, i, value))]
           /\ arg' = <<index, i, value>>
    /\ op' = "set"
    /\ result' = <<>>
    /\ UNCHANGED <<scale, call, status, rgba, altered, text, src>>

NextStops == FromArray \/ SetStop

SpecStops == InitScale /\ [][NextStops]_vars

\* C26: the stops of a scale built by fromArray are independent values:
\* assigning a component of the stop at one index changes the colour read at
\* no other index of the scale.
C26_StopsIndependent ==
    [][op' = "set" =>
           \A j \in 0..(Len(scale.colors) - 1) :
               j # arg'[1] => heap'[scale.colors[j + 1]].rgba = heap[scale.colors[j + 1]].rgba]_vars

---------------------------------------------------------------------------
(* ColorScale.lerp at the positions of the stops *)

\* C27: on a scale of n >= 2 stops built by fromArray, under the linear hint,
\* lerp(i / (n - 1), rgb) returns a colour equal to stop i, for every index i
\* in 0..n-1 and not only for the two ends.
C27_LerpAtStopPositions ==
    (op = "lerp" /\ scale.hint = "linear" /\ arg[2] = "rgb" /\ Len(scale.colors) >= 2) =>
        \A i \in 0..(Len(scale.colors) - 1) :
            arg[1] * (Len(scale.colors) - 1) = i * One =>
                (result.defined /\ result.rgba = heap[scale.colors[i + 1]].rgba)

---------------------------------------------------------------------------
(* fromArray with every positions array of matching length *)

PositionValues == {0 - Half, 0, Third, Half, One}

\* fromArray(array, ColorEncoding.rgb, stepCount, positions) for one to
\* MaxColors colours and positions in any order, with or without duplicates.
FromArrayPositioned ==
    \E n \in 1..MaxColors, stepCount \in 1..MaxStepCount :
        \E values \in [1..n -> PositionValues] :
            Build([array |-> ArrayOf("rgb", n), encoding |-> "rgb"], stepCount,
                  [given |-> TRUE, values |-> values])

NextPositioned == FromArrayPositioned \/ ColorAt

SpecPositioned == InitScale /\ [][NextPositioned]_vars

\* C28: in fromArray, for any positions array of matching length, sorted or
\* not, with or without duplicates, and any stepCount >= 2, every
\* interpolation step uses indices with 0 <= lower < upper = lower + 1 <= last
\* and positions[lower] < p <= positions[upper], so that the weight lies in
\* (0, 1] and the divisor positions[upper] - positions[lower] is not zero; and
\* lower never decreases from one output slot to the next.
C28_InterpolationSteps ==
    (op # "new" /\ call.status = "ok" /\ call.positions.given /\ call.stepCount >= 2) =>
        /\ \A k \in 1..Len(call.steps) :
               \A s \in {call.steps[k]}, pos \in {call.positions.values} :
                   /\ 0 <= s.lower /\ s.lower < s.upper /\ s.upper = s.lower + 1
                   /\ s.upper <= Len(pos) - 1
                   /\ pos[s.lower + 1] < s.position /\ s.position <= pos[s.upper + 1]
                   /\ pos[s.upper + 1] - pos[s.lower + 1] # 0
                   /\ 0 < s.a /\ s.a <= One
        /\ \A k \in 1..(Len(call.steps) - 1) : call.steps[k].lower <= call.steps[k + 1].lower

\* Positions out of order and with a duplicate, and an interpolation step
\* whose lower index has moved on from the first stop.
C28_Witness ==
    /\ op = "fromArray" /\ call.status = "ok" /\ call.stepCount >= 2
    /\ call.positions.values = <<0, 0 - Half, One>>
    /\ Len(call.steps) = 2
    /\ call.steps[1].lower = 1 /\ call.steps[2].lower = 1

\* Positions with a duplicate: the step between the stops at 0 and 1 skips the
\* first stop.
C28_WitnessDuplicate ==
    /\ op = "fromArray" /\ call.status = "ok" /\ call.stepCount >= 2
    /\ call.positions.values = <<0, 0, One>>
    /\ Len(call.steps) >= 1 /\ call.steps[1].lower = 1

---------------------------------------------------------------------------
(* grayscale applied to its own result *)

\* C29: grayscale is idempotent for every algorithm: a gray input
\* (r = g = b = v) is mapped to [v, v, v] with alpha unchanged, hence
\* grayscale(grayscale(c, algorithm), algorithm) equals grayscale(c, algorithm)
\* for every RGB(A) tuple c in [0, 1] and every algorithm.  Equality is taken
\* up to the arithmetic tolerance.
C29_GrayscaleIdempotent ==
    op = "grayscale" =>
        /\ Achromatic(arg[1]) =>
               (Close(result, arg[1]) /\ (Len(arg[1]) = 4 => result[4] = arg[1][4]))
        /\ \A again \in {grayscale(result, arg[2])} :
               /\ Len(again) = Len(result)
               /\ Close(again, result)
               /\ Len(result) = 4 => again[4] = result[4]

---------------------------------------------------------------------------
(* ColorScale.fromPreset: the transform of the fetched preset file *)

\* m positions spread over [0, 1].
Spread(m) == [k \in 1..m |-> IF k = 1 THEN 0 ELSE ((k - 1) * One) \div (m - 1)]

\* The positions a preset may carry: none, one array per colour array with an
\* entry per colour, one with an entry per component, or both.
PresetPositions(e) ==
    <<[given |-> FALSE, lists |-> <<>>],
      [given |-> TRUE, lists |-> [n \in 1..MaxColors |-> Spread(n)]],
      [given |-> TRUE, lists |-> [n \in 1..MaxColors |-> Spread(n * EncodingLength(e))]],
      [given |-> TRUE, lists |-> [n \in 1..(2 * MaxColors) |->
                                      IF n <= MaxColors THEN Spread(n)
                                      ELSE Spread((n - MaxColors) * EncodingLength(e))]]>>

\* The colour arrays a preset may carry, by step count.
PresetColors(e) ==
    <<<<ArrayOf(e, 1)>>, <<ArrayOf(e, MaxColors)>>,
      [n \in 1..MaxColors |-> ArrayOf(e, n)],
      <<ArrayOf(e, MaxColors), ArrayOf(e, 2)>>>>

PresetEncodings == <<"RGB", "RGBA", "rgb", "rgba">>

\* Entry n of a sequence, counted from 0 and around its end.
Pick(seq, n) == seq[1 + (n % Len(seq))]

\* A preset file: one preset for every encoding, choice of colour arrays and
\* choice of positions.  Its items carry their index as identifier.
PresetFile ==
    [k \in 1..(Len(PresetEncodings) * Len(PresetColors("rgb")) * Len(PresetPositions("rgb"))) |->
        [encoding |-> Pick(PresetEncodings, k - 1),
         colors |-> Pick(PresetColors(Pick(PresetEncodings, k - 1)),
                         (k - 1) \div Len(PresetEncodings)),
         positions |-> Pick(PresetPositions(Pick(PresetEncodings, k - 1)),
                            (k - 1) \div (Len(PresetEncodings) * Len(PresetColors("rgb"))))]]

RECURSIVE FindPreset(_, _, _)
FindPreset(data, preset, i) ==
    IF i > Len(data) THEN 0
    ELSE IF i # preset THEN FindPreset(data, preset, i + 1)
    ELSE i

\* The first colour array with stepCount * stride components, or the last one.
RECURSIVE FindColors(_, _, _)
FindColors(colorsByStepCount, wanted, i) ==
    IF i > Len(colorsByStepCount) THEN Len(colorsByStepCount)
    ELSE IF Len(colorsByStepCount[i]) # wanted THEN FindColors(colorsByStepCount, wanted, i + 1)
    ELSE i

\* The last positions array as long as the colour array, or none.
RECURSIVE FindPositions(_, _, _, _)
FindPositions(positionsByStepCount, colors, i, positions) ==
    IF i > Len(positionsByStepCount) THEN positions
    ELSE IF Len(positionsByStepCount[i]) # Len(colors)
    THEN FindPositions(positionsByStepCount, colors, i + 1, positions)
    ELSE FindPositions(positionsByStepCount, colors, i + 1,
                       [given |-> TRUE, values |-> positionsByStepCount[i]])

\* transform(data): the arguments of the fromArray call it returns the result
\* of, or found = FALSE when it returns undefined.
transform(data, preset, stepCount) ==
    LET at == FindPreset(data, preset, 1)
        p == data[at]
        stride == EncodingLength(p.encoding)
        colors == p.colors[FindColors(p.colors, stepCount * stride, 1)]
    IN  IF at = 0 THEN [found |-> FALSE]
        ELSE [found |-> TRUE,
              in |-> [array |-> colors, encoding |-> p.encoding],
              positions |-> IF ~p.positions.given THEN NoPositions
                            ELSE FindPositions(p.positions.lists, colors, 1, NoPositions)]

\* scale = transform(data) for the preset file, a preset name and a step count.
FromPreset ==
    /\ op = "new"
    /\ \E preset \in 0..Len(PresetFile), stepCount \in 0..MaxStepCount :
           \E t \in {transform(PresetFile, preset, stepCount)} :
               IF t.found THEN Build(t.in, stepCount, t.positions)
               ELSE /\ op' = "fromPreset"
                    /\ status' = "undefined"
                    /\ call' = [status |-> "undefined"]
                    /\ UNCHANGED <<scale, heap, arg, result, rgba, altered, text, src>>

NextPreset == FromPreset \/ ColorAt

SpecPreset == InitScale /\ [][NextPreset]_vars

\* C30: whenever the transform selects a positions array for the chosen colour
\* array, it has exactly one entry per decoded colour, so that the fromArray
\* call it forwards to does not fail its positions-length assertion; and a
\* positions array of any other length makes fromArray fail that assertion
\* instead of building a scale.
C30_PresetPositionsMatch ==
    (op = "fromArray" /\ call.positions.given) =>
        /\ Len(call.positions.values) = DecodedCount
        /\ call.status = "ok"

====
